---- MODULE Spec2Model ----
(***************************************************************************)
(* AmpyFin: strategy tournament ledgers, rank engine and decision fusion.  *)
(*                                                                         *)
(* Numeric conventions of the model                                        *)
(*   money (cash, prices, portfolio value): integers, in dollars.          *)
(*   entry price of a holding: an exact rational [n, d] (the code divides  *)
(*     floats when it averages entry prices).                              *)
(*   time_delta: integer, in hundredths.                                   *)
(*   scoring multipliers: integer, in tenths (1.5 is 15).                  *)
(*   points: integer, in thousandths (time_delta * multiplier).            *)
(*   price-change thresholds: integer, per mille (1.05 is 1050).           *)
(***************************************************************************)
EXTENDS Integers, Sequences, FiniteSets, TLC

VARIABLES
    trading_simulator,  \* training.py: dict strategy -> ledger
    points,             \* training.py: dict strategy -> points
    time_delta,         \* training.py: local time_delta of train()
    run_status,         \* "running" | "failed" (uncaught exception in train())
    algorithm_holdings, \* MongoDB trading_simulator.algorithm_holdings
    points_tally,       \* MongoDB trading_simulator.points_tally
    td_doc,             \* MongoDB trading_simulator.time_delta
    phase,              \* which client is running
    last,               \* the last call made and its arguments
    rank_coll,          \* MongoDB trading_simulator.rank, in insertion order
    heap,               \* update_ranks: the heap of score tuples
    rank,               \* update_ranks: the next rank to hand out
    ur_pc,              \* update_ranks: "idle" | "cleared" | "ranking"
    runs,               \* completed runs of update_ranks
    prev_rank,          \* the rank collection as the current run found it
    HistoricalDatabase, \* MongoDB HistoricalDatabase (tickers cached)
    rank_dict,          \* testing.py: dict returned by update_strategy_ranks
    reader,             \* trading.py: initialize_strategy_coefficients
    votes,              \* decisions_and_quantities given to the fusion
    fused,              \* what the fusion returned
    cal,                \* the day loop: date, market status, flags, prices
    account,            \* testing.py / trading.py: the traded account
    buy_heap,           \* the buy orders queued for the day
    suggestion_heap,    \* the suggested buys queued for the day
    orders,             \* the orders popped in the current drain, in order
    threads,            \* ranking_client.py: the ticker threads of a cycle
    retry               \* the retry loop that is running, its attempt and delay

ledger_vars == <<trading_simulator, points, time_delta, run_status,
                 algorithm_holdings, points_tally, td_doc, phase, last>>
rank_vars == <<rank_coll, heap, rank, ur_pc, runs, prev_rank,
               HistoricalDatabase, rank_dict, reader>>
fuse_vars == <<votes, fused>>
day_vars == <<cal, account, buy_heap, suggestion_heap, orders>>
thread_vars == <<threads, retry>>
vars == <<ledger_vars, rank_vars, fuse_vars, day_vars, thread_vars>>

----------------------------------------------------------------------------
(* Bounds *)

MaxTrades == 3

Strategies == {"BBANDS_indicator", "MACD_indicator", "RSI_indicator"}
\* the strategies whose signals are not all Hold in the window explored
Traders == {"RSI_indicator"}
Tickers == {"AAPL", "MSFT", "GOOG"}

PricesOf(t) == IF t = "AAPL" THEN {100, 103, 110, 112} ELSE {100}
Qtys == {0, 70, 140}
LiveTickers == {"AAPL", "MSFT"}
DayTickers == {"MSFT"}
LiveQtys == {0, 20, 40}
TimeDeltas == {1, 5}

----------------------------------------------------------------------------
(* control.py *)

PerMille == 1000
train_rank_liquidity_limit == 15000
train_rank_asset_limit == 300
trade_asset_limit == 100
rank_liquidity_limit == 15000
rank_asset_limit == 100

train_profit_price_change_ratio_d1 == 1050
train_profit_profit_time_d1 == 10
train_profit_price_change_ratio_d2 == 1100
train_profit_profit_time_d2 == 15
train_profit_profit_time_else == 12
train_loss_price_change_ratio_d1 == 975
train_loss_profit_time_d1 == 10
train_loss_price_change_ratio_d2 == 950
train_loss_profit_time_d2 == 15
train_loss_profit_time_else == 20

profit_price_change_ratio_d1 == 1050
profit_profit_time_d1 == 10
profit_price_change_ratio_d2 == 1100
profit_profit_time_d2 == 15
profit_profit_time_else == 12
loss_price_change_ratio_d1 == 975
loss_profit_time_d1 == 10
loss_price_change_ratio_d2 == 950
loss_profit_time_d2 == 15
loss_profit_time_else == 20

start_cash == 50000

----------------------------------------------------------------------------
(* Exact rationals for entry prices *)

RECURSIVE GCD(_, _)
GCD(a, b) == IF b = 0 THEN a ELSE GCD(b, a % b)

Rat(n, d) == LET g == GCD(n, d) IN [n |-> n \div g, d |-> d \div g]

Min(a, b) == IF a < b THEN a ELSE b
Max(a, b) == IF a > b THEN a ELSE b

----------------------------------------------------------------------------
(* Ledger helpers *)

NewLedger ==
    [holdings |-> <<>>, amount_cash |-> start_cash, total_trades |-> 0,
     successful_trades |-> 0, neutral_trades |-> 0, failed_trades |-> 0,
     portfolio_value |-> start_cash]

\* dict.get(ticker, {}).get("quantity", 0)
HeldQty(holdings, ticker) ==
    IF ticker \in DOMAIN holdings THEN holdings[ticker].quantity ELSE 0

\* holdings[ticker] = entry
SetHolding(holdings, ticker, entry) ==
    [x \in (DOMAIN holdings) \cup {ticker} |->
        IF x = ticker THEN entry ELSE holdings[x]]

\* a del that is forgotten: the entry stays in the map
DelHolding_forgotten(holdings, ticker) == holdings

\* del holdings[ticker]
DelHolding(holdings, ticker) ==
    [x \in (DOMAIN holdings) \ {ticker} |-> holdings[x]]

----------------------------------------------------------------------------
(* utilities/common_utils.py *)

\* ratio < threshold, ratio an exact quotient [n, d], threshold per mille
RatioLT(ratio, th) == ratio.n * PerMille < th * ratio.d
RatioGT(ratio, th) == ratio.n * PerMille > th * ratio.d

\* current_price > / == holdings[ticker]["price"]
PriceGT(current_price, entry) == current_price * entry.d > entry.n
PriceEQ(current_price, entry) == current_price * entry.d = entry.n

\* update_points_and_trades with the exception built but not raised, as in
\* the loop body of ranking_client.py
update_points_and_trades_no_raise(strategy_name, ratio, current_price, sim, pts, td, ticker, qty) ==
    LET led == sim[strategy_name]
        entry == led.holdings[ticker].price
        scored ==
            IF PriceGT(current_price, entry)
            THEN [led |-> [led EXCEPT !.successful_trades = @ + 1],
                  pts |-> IF RatioLT(ratio, train_profit_price_change_ratio_d1)
                          THEN pts[strategy_name] + td * train_profit_profit_time_d1
                          ELSE IF RatioLT(ratio, train_profit_price_change_ratio_d2)
                          THEN pts[strategy_name] + td * train_profit_profit_time_d2
                          ELSE pts[strategy_name] + td * train_profit_profit_time_else]
            ELSE IF PriceEQ(current_price, entry)
            THEN [led |-> [led EXCEPT !.neutral_trades = @ + 1],
                  pts |-> pts[strategy_name]]
            ELSE [led |-> [led EXCEPT !.failed_trades = @ + 1],
                  pts |-> IF RatioGT(ratio, train_loss_price_change_ratio_d1)
                          THEN pts[strategy_name] + (-td) * train_loss_profit_time_d1
                          ELSE IF RatioGT(ratio, train_loss_price_change_ratio_d2)
                          THEN pts[strategy_name] + (-td) * train_loss_profit_time_d2
                          ELSE pts[strategy_name] + (-td) * train_loss_profit_time_else]
        newqty == led.holdings[ticker].quantity - qty
        dec == [scored.led EXCEPT !.holdings[ticker].quantity = newqty]
        pts2 == [pts EXCEPT ![strategy_name] = scored.pts]
    IN  IF newqty = 0
        THEN [sim |-> [sim EXCEPT ![strategy_name] =
                         [dec EXCEPT !.holdings = DelHolding(dec.holdings, ticker),
                                     !.total_trades = @ + 1]],
              points |-> pts2, raised |-> FALSE]
        ELSE IF newqty < 0
        THEN [sim |-> [sim EXCEPT ![strategy_name] =
                         [dec EXCEPT !.total_trades = @ + 1]],
              points |-> pts2, raised |-> FALSE]
        ELSE [sim |-> [sim EXCEPT ![strategy_name] =
                         [dec EXCEPT !.total_trades = @ + 1]],
              points |-> pts2, raised |-> FALSE]

\* update_points_and_trades with the first profit tier paid at the second
\* tier's multiplier
update_points_and_trades_d1_d2_swapped(strategy_name, ratio, current_price, sim, pts, td, ticker, qty) ==
    LET led == sim[strategy_name]
        entry == led.holdings[ticker].price
        scored ==
            IF PriceGT(current_price, entry)
            THEN [led |-> [led EXCEPT !.successful_trades = @ + 1],
                  pts |-> IF RatioLT(ratio, train_profit_price_change_ratio_d1)
                          THEN pts[strategy_name] + td * train_profit_profit_time_d2
                          ELSE IF RatioLT(ratio, train_profit_price_change_ratio_d2)
                          THEN pts[strategy_name] + td * train_profit_profit_time_d2
                          ELSE pts[strategy_name] + td * train_profit_profit_time_else]
            ELSE IF PriceEQ(current_price, entry)
            THEN [led |-> [led EXCEPT !.neutral_trades = @ + 1],
                  pts |-> pts[strategy_name]]
            ELSE [led |-> [led EXCEPT !.failed_trades = @ + 1],
                  pts |-> IF RatioGT(ratio, train_loss_price_change_ratio_d1)
                          THEN pts[strategy_name] + (-td) * train_loss_profit_time_d1
                          ELSE IF RatioGT(ratio, train_loss_price_change_ratio_d2)
                          THEN pts[strategy_name] + (-td) * train_loss_profit_time_d2
                          ELSE pts[strategy_name] + (-td) * train_loss_profit_time_else]
        newqty == led.holdings[ticker].quantity - qty
        dec == [scored.led EXCEPT !.holdings[ticker].quantity = newqty]
        pts2 == [pts EXCEPT ![strategy_name] = scored.pts]
    IN  IF newqty = 0
        THEN [sim |-> [sim EXCEPT ![strategy_name] =
                         [dec EXCEPT !.holdings = DelHolding(dec.holdings, ticker),
                                     !.total_trades = @ + 1]],
              points |-> pts2, raised |-> FALSE]
        ELSE IF newqty < 0
        THEN \* raise Exception("Quantity cannot be negative"): the dicts
             \* were mutated in place, total_trades is not incremented
             [sim |-> [sim EXCEPT ![strategy_name] = dec],
              points |-> pts2, raised |-> TRUE]
        ELSE [sim |-> [sim EXCEPT ![strategy_name] =
                         [dec EXCEPT !.total_trades = @ + 1]],
              points |-> pts2, raised |-> FALSE]

update_points_and_trades(strategy_name, ratio, current_price, sim, pts, td, ticker, qty) ==
    LET led == sim[strategy_name]
        entry == led.holdings[ticker].price
        scored ==
            IF PriceGT(current_price, entry)
            THEN [led |-> [led EXCEPT !.successful_trades = @ + 1],
                  pts |-> IF RatioLT(ratio, train_profit_price_change_ratio_d1)
                          THEN pts[strategy_name] + td * train_profit_profit_time_d1
                          ELSE IF RatioLT(ratio, train_profit_price_change_ratio_d2)
                          THEN pts[strategy_name] + td * train_profit_profit_time_d2
                          ELSE pts[strategy_name] + td * train_profit_profit_time_else]
            ELSE IF PriceEQ(current_price, entry)
            THEN [led |-> [led EXCEPT !.neutral_trades = @ + 1],
                  pts |-> pts[strategy_name]]
            ELSE [led |-> [led EXCEPT !.failed_trades = @ + 1],
                  pts |-> IF RatioGT(ratio, train_loss_price_change_ratio_d1)
                          THEN pts[strategy_name] + (-td) * train_loss_profit_time_d1
                          ELSE IF RatioGT(ratio, train_loss_price_change_ratio_d2)
                          THEN pts[strategy_name] + (-td) * train_loss_profit_time_d2
                          ELSE pts[strategy_name] + (-td) * train_loss_profit_time_else]
        newqty == led.holdings[ticker].quantity - qty
        dec == [scored.led EXCEPT !.holdings[ticker].quantity = newqty]
        pts2 == [pts EXCEPT ![strategy_name] = scored.pts]
    IN  IF newqty = 0
        THEN [sim |-> [sim EXCEPT ![strategy_name] =
                         [dec EXCEPT !.holdings = DelHolding(dec.holdings, ticker),
                                     !.total_trades = @ + 1]],
              points |-> pts2, raised |-> FALSE]
        ELSE IF newqty < 0
        THEN \* raise Exception("Quantity cannot be negative"): the dicts
             \* were mutated in place, total_trades is not incremented
             [sim |-> [sim EXCEPT ![strategy_name] = dec],
              points |-> pts2, raised |-> TRUE]
        ELSE [sim |-> [sim EXCEPT ![strategy_name] =
                         [dec EXCEPT !.total_trades = @ + 1]],
              points |-> pts2, raised |-> FALSE]

\* a sell quantity that adds half the holding to the holding
compute_trade_quantities_whole_plus_half(action, current_price, account_cash, portfolio_qty, total_portfolio_value) ==
    \* max_investment // current_price, max_investment = value * 0.1
    LET by_limit == (total_portfolio_value * trade_asset_limit)
                        \div (PerMille * current_price)
        by_cash == account_cash \div current_price
    IN  IF action = "Buy"
        THEN [decision |-> "buy", qty |-> Min(by_limit, by_cash)]
        ELSE IF action = "Sell" /\ portfolio_qty > 0
        THEN [decision |-> "sell",
              qty |-> portfolio_qty + Max(1, portfolio_qty \div 2)]
        ELSE [decision |-> "hold", qty |-> 0]

compute_trade_quantities(action, current_price, account_cash, portfolio_qty, total_portfolio_value) ==
    \* max_investment // current_price, max_investment = value * 0.1
    LET by_limit == (total_portfolio_value * trade_asset_limit)
                        \div (PerMille * current_price)
        by_cash == account_cash \div current_price
    IN  IF action = "Buy"
        THEN [decision |-> "buy", qty |-> Min(by_limit, by_cash)]
        ELSE IF action = "Sell" /\ portfolio_qty > 0
        THEN [decision |-> "sell",
              qty |-> Min(portfolio_qty, Max(1, portfolio_qty \div 2))]
        ELSE [decision |-> "hold", qty |-> 0]

\* execute_trade without the holdings check on the sell branch
execute_trade_sell_unguarded(decision, qty, ticker, current_price, strategy_name, sim, pts, td, portfolio_qty, total_portfolio_value) ==
    LET led == sim[strategy_name]
    IN  IF /\ decision = "buy"
           /\ led.amount_cash > train_rank_liquidity_limit
           /\ qty > 0
           /\ (portfolio_qty + qty) * current_price * PerMille
                < train_rank_asset_limit * total_portfolio_value
        THEN [sim |-> [sim EXCEPT ![strategy_name] =
                [led EXCEPT
                   !.amount_cash = @ - qty * current_price,
                   !.holdings = SetHolding(@, ticker,
                        [quantity |-> HeldQty(led.holdings, ticker) + qty,
                         price |-> Rat(current_price, 1)]),
                   !.total_trades = @ + 1]],
              points |-> pts, raised |-> FALSE]
        ELSE IF decision = "sell"
        THEN IF ticker \notin DOMAIN led.holdings
             THEN \* amount_cash += 0, then KeyError on holdings[ticker]
                  [sim |-> [sim EXCEPT ![strategy_name].amount_cash =
                                @ + qty * current_price],
                   points |-> pts, raised |-> TRUE]
             ELSE LET entry == led.holdings[ticker].price
                      paid == [sim EXCEPT ![strategy_name].amount_cash =
                                  @ + qty * current_price]
                  IN  update_points_and_trades(strategy_name,
                          [n |-> current_price * entry.d, d |-> entry.n],
                          current_price, paid, pts, td, ticker, qty)
        ELSE [sim |-> sim, points |-> pts, raised |-> FALSE]

\* a buy guard that lets the position reach the asset limit
execute_trade_limit_reached(decision, qty, ticker, current_price, strategy_name, sim, pts, td, portfolio_qty, total_portfolio_value) ==
    LET led == sim[strategy_name]
    IN  IF /\ decision = "buy"
           /\ led.amount_cash > train_rank_liquidity_limit
           /\ qty > 0
           /\ (portfolio_qty + qty) * current_price * PerMille
                <= train_rank_asset_limit * total_portfolio_value
        THEN [sim |-> [sim EXCEPT ![strategy_name] =
                [led EXCEPT
                   !.amount_cash = @ - qty * current_price,
                   !.holdings = SetHolding(@, ticker,
                        [quantity |-> HeldQty(led.holdings, ticker) + qty,
                         price |-> Rat(current_price, 1)]),
                   !.total_trades = @ + 1]],
              points |-> pts, raised |-> FALSE]
        ELSE IF decision = "sell" /\ HeldQty(led.holdings, ticker) >= qty
        THEN IF ticker \notin DOMAIN led.holdings
             THEN \* amount_cash += 0, then KeyError on holdings[ticker]
                  [sim |-> [sim EXCEPT ![strategy_name].amount_cash =
                                @ + qty * current_price],
                   points |-> pts, raised |-> TRUE]
             ELSE LET entry == led.holdings[ticker].price
                      paid == [sim EXCEPT ![strategy_name].amount_cash =
                                  @ + qty * current_price]
                  IN  update_points_and_trades(strategy_name,
                          [n |-> current_price * entry.d, d |-> entry.n],
                          current_price, paid, pts, td, ticker, qty)
        ELSE [sim |-> sim, points |-> pts, raised |-> FALSE]

execute_trade(decision, qty, ticker, current_price, strategy_name, sim, pts, td, portfolio_qty, total_portfolio_value) ==
    LET led == sim[strategy_name]
    IN  IF /\ decision = "buy"
           /\ led.amount_cash > train_rank_liquidity_limit
           /\ qty > 0
           /\ (portfolio_qty + qty) * current_price * PerMille
                < train_rank_asset_limit * total_portfolio_value
        THEN [sim |-> [sim EXCEPT ![strategy_name] =
                [led EXCEPT
                   !.amount_cash = @ - qty * current_price,
                   !.holdings = SetHolding(@, ticker,
                        [quantity |-> HeldQty(led.holdings, ticker) + qty,
                         price |-> Rat(current_price, 1)]),
                   !.total_trades = @ + 1]],
              points |-> pts, raised |-> FALSE]
        ELSE IF decision = "sell" /\ HeldQty(led.holdings, ticker) >= qty
        THEN IF ticker \notin DOMAIN led.holdings
             THEN \* amount_cash += 0, then KeyError on holdings[ticker]
                  [sim |-> [sim EXCEPT ![strategy_name].amount_cash =
                                @ + qty * current_price],
                   points |-> pts, raised |-> TRUE]
             ELSE LET entry == led.holdings[ticker].price
                      paid == [sim EXCEPT ![strategy_name].amount_cash =
                                  @ + qty * current_price]
                  IN  update_points_and_trades(strategy_name,
                          [n |-> current_price * entry.d, d |-> entry.n],
                          current_price, paid, pts, td, ticker, qty)
        ELSE [sim |-> sim, points |-> pts, raised |-> FALSE]

----------------------------------------------------------------------------
(* TradeSim/ranking.py *)

\* points_coll.update_one({"strategy": s}, {"$inc": {"total_points": p}},
\*                        upsert=True)
IncPoints(tally, strategy_name, p) ==
    [x \in (DOMAIN tally) \cup {strategy_name} |->
        IF x = strategy_name
        THEN (IF x \in DOMAIN tally THEN tally[x] ELSE 0) + p
        ELSE tally[x]]

\* One call of simulate_trade; (action, quantity) is what simulate_strategy
\* returned for this strategy and ticker.
simulate_trade(ticker, strategy_name, action, quantity, current_price, strat_doc, tally, td) ==
    LET holdings_doc == strat_doc.holdings
        portfolio_qty == HeldQty(holdings_doc, ticker)
    IN  IF /\ action = "buy"
           /\ strat_doc.amount_cash - quantity * current_price
                > rank_liquidity_limit
           /\ quantity > 0
           /\ (portfolio_qty + quantity) * current_price * PerMille
                < rank_asset_limit * strat_doc.portfolio_value
        THEN LET new_qty == portfolio_qty + quantity
                 average_price ==
                     IF ticker \in DOMAIN holdings_doc
                     THEN LET old == holdings_doc[ticker]
                          IN  Rat(old.price.n * old.quantity
                                    + current_price * quantity * old.price.d,
                                  old.price.d * new_qty)
                     ELSE Rat(current_price, 1)
             IN  [doc |-> [strat_doc EXCEPT
                     !.holdings = SetHolding(@, ticker,
                         [quantity |-> new_qty, price |-> average_price]),
                     !.amount_cash = @ - quantity * current_price,
                     !.total_trades = @ + 1],
                  tally |-> tally]
        ELSE IF /\ action = "sell"
                /\ ticker \in DOMAIN holdings_doc
                /\ holdings_doc[ticker].quantity > 0
        THEN LET current_qty == holdings_doc[ticker].quantity
                 sell_qty == Min(quantity, current_qty)
                 entry == holdings_doc[ticker].price
                 price_change_ratio ==
                     [n |-> current_price * entry.d, d |-> entry.n]
                 loss_points ==
                     IF RatioGT(price_change_ratio, loss_price_change_ratio_d1)
                     THEN (-td) * loss_profit_time_d1
                     ELSE IF RatioGT(price_change_ratio, loss_price_change_ratio_d2)
                     THEN (-td) * loss_profit_time_d2
                     ELSE (-td) * loss_profit_time_else
                 scored ==
                     IF PriceGT(current_price, entry)
                     THEN [doc |-> [strat_doc EXCEPT !.successful_trades = @ + 1],
                           pts |-> IF RatioLT(price_change_ratio,
                                              profit_price_change_ratio_d1)
                                   THEN td * profit_profit_time_d1
                                   ELSE IF RatioLT(price_change_ratio,
                                                   profit_price_change_ratio_d2)
                                   THEN td * profit_profit_time_d2
                                   ELSE td * profit_profit_time_else]
                     ELSE IF PriceEQ(current_price, entry)
                     THEN [doc |-> [strat_doc EXCEPT !.neutral_trades = @ + 1],
                           pts |-> loss_points]
                     ELSE [doc |-> [strat_doc EXCEPT !.failed_trades = @ + 1],
                           pts |-> loss_points]
                 left == current_qty - sell_qty
                 new_holdings ==
                     IF left = 0
                     THEN DelHolding(holdings_doc, ticker)
                     ELSE [holdings_doc EXCEPT ![ticker].quantity = left]
             IN  [doc |-> [scored.doc EXCEPT
                     !.holdings = new_holdings,
                     !.amount_cash = @ + sell_qty * current_price,
                     !.total_trades = @ + 1],
                  tally |-> IncPoints(tally, strategy_name, scored.pts)]
        ELSE [doc |-> strat_doc, tally |-> tally]

----------------------------------------------------------------------------
(* The two clients.  phase = "train": TradeSim/training.py drives the      *)
(* in-memory ledgers through execute_trade.  phase = "live":               *)
(* TradeSim/ranking.py drives the MongoDB ledgers through simulate_trade.  *)

\* The last call: which operation, for which strategy and ticker, with which
\* decision, and whether it traded ("executed"), left the ledger alone
\* ("rejected") or raised ("raised").
NoCall == [op |-> "none", strategy |-> "", ticker |-> "", decision |-> "",
           outcome |-> ""]

Call(op, s, t, decision, before, after, raised) ==
    [op |-> op, strategy |-> s, ticker |-> t, decision |-> decision,
     outcome |-> IF raised THEN "raised"
                 ELSE IF after.total_trades # before.total_trades
                 THEN "executed" ELSE "rejected"]

\* train(): every strategy starts with 50000 in cash, no holdings and no
\* points; time_delta is the configured seed.  setup.py creates the same
\* ledgers, zero tallies and the time_delta document in MongoDB.
NoReader == [pc |-> "idle", started |-> 0, seen |-> <<>>]
NoFusion == [decision |-> "none", quantity |-> [n |-> 0, d |-> 1],
             buy_weight |-> 0, sell_weight |-> 0, hold_weight |-> 0]

\* no rank has been computed yet: setup.py creates no rank document
RankIdle ==
    /\ rank_coll = <<>>
    /\ heap = {}
    /\ rank = 1
    /\ ur_pc = "idle"
    /\ runs = 0
    /\ prev_rank = <<>>
    /\ HistoricalDatabase = {"AAPL"}
    /\ rank_dict = <<>>
    /\ reader = NoReader

FuseIdle == votes = <<>> /\ fused = NoFusion

NoRetry == [loop |-> "none", pc |-> "idle", attempt |-> 0, calls |-> 0,
            delay |-> 0, max_retries |-> 0, base_delay |-> 0, max_delay |-> 0]

ThreadIdle == threads = <<>> /\ retry = NoRetry

\* no day loop is running: no calendar, an untouched account, empty queues
NoCal == [date |-> 0, status |-> "none", pc |-> "loop", in_day |-> FALSE,
          days |-> 0,
          td_day |-> 0, td_prev_day |-> 0, price |-> <<>>, signals |-> <<>>,
          todo |-> <<>>, sold |-> FALSE, account_cash |-> 0, dropped |-> 0,
          rank_to_coefficient |-> <<>>, strategy_to_coefficient |-> <<>>,
          early_hour_first_iteration |-> TRUE,
          post_market_hour_first_iteration |-> TRUE]
NoAccount == [cash |-> 0, holdings |-> <<>>, trades |-> <<>>,
              total_portfolio_value |-> 0]

DayIdle ==
    /\ cal = NoCal
    /\ account = NoAccount
    /\ buy_heap = {}
    /\ suggestion_heap = {}
    /\ orders = <<>>

Init ==
    /\ RankIdle
    /\ FuseIdle
    /\ ThreadIdle
    /\ DayIdle
    /\ trading_simulator = [s \in Strategies |-> NewLedger]
    /\ points = [s \in Strategies |-> 0]
    /\ run_status = "running"
    /\ algorithm_holdings = [s \in Strategies |-> NewLedger]
    /\ points_tally = [s \in Strategies |-> 0]
    /\ phase \in {"train", "live"}
    /\ \E td \in TimeDeltas : time_delta = td /\ td_doc = td
    /\ last = NoCall

TrainRunning(s) ==
    /\ phase \in {"train", "test"}
    /\ run_status = "running"
    /\ trading_simulator[s].total_trades < MaxTrades

\* One iteration of the strategy loop of simulate_trading_day.
simulate_trading_day(s, t, current_price, num_action) ==
    /\ TrainRunning(s)
    /\ LET action == IF num_action = 1 THEN "Buy"
                     ELSE IF num_action = -1 THEN "Sell" ELSE "Hold"
           account_cash == trading_simulator[s].amount_cash
           portfolio_qty == HeldQty(trading_simulator[s].holdings, t)
           total_portfolio_value == trading_simulator[s].portfolio_value
           dq == compute_trade_quantities(action, current_price, account_cash,
                                          portfolio_qty, total_portfolio_value)
           r == execute_trade(dq.decision, dq.qty, t, current_price, s,
                              trading_simulator, points, time_delta,
                              portfolio_qty, total_portfolio_value)
       IN  /\ trading_simulator' = r.sim
           /\ points' = r.points
           /\ run_status' = IF r.raised THEN "failed" ELSE run_status
           /\ last' = Call("execute_trade", s, t, dq.decision,
                            trading_simulator[s], r.sim[s], r.raised)
    /\ UNCHANGED <<time_delta, algorithm_holdings, points_tally, td_doc, phase,
                   rank_vars, fuse_vars, thread_vars, day_vars>>

\* execute_trade called with a decision and quantity of the caller's choice.
execute_trade_call(s, t, decision, qty, current_price) ==
    /\ TrainRunning(s)
    /\ LET portfolio_qty == HeldQty(trading_simulator[s].holdings, t)
           total_portfolio_value == trading_simulator[s].portfolio_value
           r == execute_trade(decision, qty, t, current_price, s,
                              trading_simulator, points, time_delta,
                              portfolio_qty, total_portfolio_value)
       IN  /\ trading_simulator' = r.sim
           /\ points' = r.points
           /\ run_status' = IF r.raised THEN "failed" ELSE run_status
           /\ last' = Call("execute_trade", s, t, decision,
                            trading_simulator[s], r.sim[s], r.raised)
    /\ UNCHANGED <<time_delta, algorithm_holdings, points_tally, td_doc, phase,
                   rank_vars, fuse_vars, thread_vars, day_vars>>

\* One iteration of the strategy loop of process_ticker (TradeSim/ranking.py).
process_ticker(s, t, action, quantity, current_price) ==
    /\ phase = "live"
    /\ algorithm_holdings[s].total_trades < MaxTrades
    /\ LET r == simulate_trade(t, s, action, quantity, current_price,
                               algorithm_holdings[s], points_tally, td_doc)
       IN  /\ algorithm_holdings' = [algorithm_holdings EXCEPT ![s] = r.doc]
           /\ points_tally' = r.tally
           /\ last' = Call("simulate_trade", s, t, action,
                            algorithm_holdings[s], r.doc, FALSE)
    /\ UNCHANGED <<trading_simulator, points, time_delta, run_status, td_doc,
                   phase, rank_vars, fuse_vars, thread_vars, day_vars>>

Decisions == {"buy", "sell", "hold"}

Next ==
    \/ \E s \in Traders, t \in DayTickers, na \in {-1, 0, 1} :
         \E p \in PricesOf(t) : simulate_trading_day(s, t, p, na)
    \/ \E s \in Traders, t \in Tickers, d \in Decisions, q \in Qtys :
         \E p \in PricesOf(t) : execute_trade_call(s, t, d, q, p)
    \/ \E s \in Traders, t \in LiveTickers, d \in Decisions, q \in LiveQtys :
         \E p \in PricesOf(t) : process_ticker(s, t, d, q, p)

Spec == Init /\ [][Next]_vars

----------------------------------------------------------------------------
(* Ledger claims *)

\* the ledger the last call acted on
LastLedger ==
    IF last.op = "simulate_trade" THEN algorithm_holdings[last.strategy]
    ELSE trading_simulator[last.strategy]

\* C1: every holdings entry of every strategy ledger, in memory or in
\* MongoDB, has a quantity above zero: quantities never go negative and an
\* entry whose quantity a sell brought to exactly 0 has been removed.
C1_QuantityPositive ==
    \A s \in Strategies :
        /\ \A t \in DOMAIN trading_simulator[s].holdings :
              trading_simulator[s].holdings[t].quantity > 0
        /\ \A t \in DOMAIN algorithm_holdings[s].holdings :
              algorithm_holdings[s].holdings[t].quantity > 0

\* a sell has just sold a whole position and its entry is gone
C1_Witness ==
    /\ last.decision = "sell"
    /\ last.outcome = "executed"
    /\ last.ticker \notin DOMAIN LastLedger.holdings
    /\ LastLedger.total_trades >= 2

\* C2 (as claimed): after every executed buy the cash left is strictly above
\* the liquidity limit.
C2_BuyLeavesCashAboveLimit ==
    (last.decision = "buy" /\ last.outcome = "executed")
        => LastLedger.amount_cash > train_rank_liquidity_limit

\* what one call of execute_trade / simulate_trade would return in the
\* current state, with the arguments the callers pass
TrainResult(s, t, decision, q, p) ==
    execute_trade(decision, q, t, p, s, trading_simulator, points, time_delta,
                  HeldQty(trading_simulator[s].holdings, t),
                  trading_simulator[s].portfolio_value)

LiveResult(s, t, decision, q, p) ==
    simulate_trade(t, s, decision, q, p, algorithm_holdings[s], points_tally,
                   td_doc)

TrainUntouched(s, t, q, p) ==
    LET r == TrainResult(s, t, "sell", q, p)
    IN  r.sim = trading_simulator /\ r.points = points

LiveUntouched(s, t, q, p) ==
    LET r == LiveResult(s, t, "sell", q, p)
    IN  r.doc = algorithm_holdings[s] /\ r.tally = points_tally

EntryOf(ledger, t) == ledger.holdings[t].price

ProfitTier(p, entry) ==
    IF p * entry.d * 1000 < 1050 * entry.n THEN 10
    ELSE IF p * entry.d * 1000 < 1100 * entry.n THEN 15
    ELSE 12

LossTier(p, entry) ==
    IF p * entry.d * 1000 > 975 * entry.n THEN 10
    ELSE IF p * entry.d * 1000 > 950 * entry.n THEN 15
    ELSE 20

\* the change a scored sell at a profit or at a loss must make to the counters
\* and the points: before/after are ledgers, pb/pa the points around the call
ScoredAsClaimed(p, entry, before, after, pb, pa, td) ==
    /\ p * entry.d > entry.n =>
          /\ after.successful_trades = before.successful_trades + 1
          /\ after.failed_trades = before.failed_trades
          /\ pa = pb + td * ProfitTier(p, entry)
    /\ p * entry.d < entry.n =>
          /\ after.failed_trades = before.failed_trades + 1
          /\ after.successful_trades = before.successful_trades
          /\ pa = pb - td * LossTier(p, entry)

\* C10: in every reachable ledger state, a sell of a held ticker that the
\* guard lets through, at a price above the entry price, adds exactly 1 to
\* successful_trades and time_delta * (profit-tier multiplier of
\* price/entry) to the strategy's points; at a price below the entry price it
\* adds exactly 1 to failed_trades and takes time_delta * (loss-tier
\* multiplier) off the points. Both clients score the same way.
C10_SellScoring ==
    \A s \in Strategies, t \in Tickers, q \in Qtys \cup LiveQtys :
      \A p \in PricesOf(t) :
        /\ (t \in DOMAIN trading_simulator[s].holdings
              /\ q <= HeldQty(trading_simulator[s].holdings, t))
           => LET r == TrainResult(s, t, "sell", q, p)
              IN  ScoredAsClaimed(p, EntryOf(trading_simulator[s], t),
                      trading_simulator[s], r.sim[s],
                      points[s], r.points[s], time_delta)
        /\ t \in DOMAIN algorithm_holdings[s].holdings
           => LET r == LiveResult(s, t, "sell", q, p)
              IN  ScoredAsClaimed(p, EntryOf(algorithm_holdings[s], t),
                      algorithm_holdings[s], r.doc,
                      points_tally[s], r.tally[s], td_doc)

\* a sell has just been scored on a ledger that by now has both a profitable
\* and a losing sell behind it
C10_Witness ==
    /\ last.decision = "sell"
    /\ last.outcome = "executed"
    /\ LastLedger.successful_trades >= 1
    /\ LastLedger.failed_trades >= 1

----------------------------------------------------------------------------
(* The scoring step on its own, and the training loop of ranking_client.py *)

MaxHeld == 2
ScoreQtys == {1, 2, 3}
ScorePrices == {100, 110}

\* ranking_client.py main(), mode 'train': the trade of one strategy on one
\* ticker, written out in the loop body
main_train_trade(decision, qty, ticker, current_price, strategy_name, sim, pts, td) ==
    LET led == sim[strategy_name]
        portfolio_qty == HeldQty(led.holdings, ticker)
    IN  IF /\ decision = "buy"
           /\ led.amount_cash > rank_liquidity_limit
           /\ qty > 0
           /\ (portfolio_qty + qty) * current_price * PerMille
                < rank_asset_limit * led.portfolio_value
        THEN [sim |-> [sim EXCEPT ![strategy_name] =
                [led EXCEPT
                   !.amount_cash = @ - qty * current_price,
                   !.holdings = SetHolding(@, ticker,
                        [quantity |-> portfolio_qty + qty,
                         price |-> Rat(current_price, 1)]),
                   !.total_trades = @ + 1]],
              points |-> pts, raised |-> FALSE]
        ELSE IF decision = "sell" /\ portfolio_qty >= qty
        THEN IF ticker \notin DOMAIN led.holdings
             THEN [sim |-> [sim EXCEPT ![strategy_name].amount_cash =
                                @ + qty * current_price],
                   points |-> pts, raised |-> TRUE]
             ELSE LET entry == led.holdings[ticker].price
                      newqty == portfolio_qty - qty
                      scored ==
                        IF PriceGT(current_price, entry)
                        THEN [led EXCEPT !.successful_trades = @ + 1]
                        ELSE IF PriceEQ(current_price, entry)
                        THEN [led EXCEPT !.neutral_trades = @ + 1]
                        ELSE [led EXCEPT !.failed_trades = @ + 1]
                      p2 == IF PriceGT(current_price, entry)
                            THEN pts[strategy_name] + td * profit_profit_time_d1
                            ELSE IF PriceEQ(current_price, entry)
                            THEN pts[strategy_name]
                            ELSE pts[strategy_name] - td * loss_profit_time_d1
                      \* == 0: del; < 0: Exception(...) is built, not raised
                      kept == IF newqty = 0
                              THEN DelHolding(scored.holdings, ticker)
                              ELSE [scored.holdings EXCEPT
                                      ![ticker].quantity = newqty]
                  IN  [sim |-> [sim EXCEPT ![strategy_name] =
                          [scored EXCEPT
                             !.amount_cash = @ + qty * current_price,
                             !.holdings = kept,
                             !.total_trades = @ + 1]],
                       points |-> [pts EXCEPT ![strategy_name] = p2],
                       raised |-> FALSE]
        ELSE [sim |-> sim, points |-> pts, raised |-> FALSE]

ScoreTickers == {"AAPL", "MSFT"}
ClientQtys == {1, 20}

\* a run caught in the middle: the trading strategy holds h shares of AAPL
\* bought at e
HeldLedger(h, e) ==
    IF h = 0 THEN NewLedger
    ELSE [NewLedger EXCEPT
            !.holdings = SetHolding(<<>>, "AAPL",
                            [quantity |-> h, price |-> Rat(e, 1)]),
            !.amount_cash = start_cash - h * e,
            !.total_trades = 1]

InitScoring ==
    /\ RankIdle
    /\ FuseIdle
    /\ ThreadIdle
    /\ DayIdle
    /\ \E h \in 0..MaxHeld, e \in ScorePrices :
         trading_simulator =
            [s \in Strategies |->
                IF s \in Traders THEN HeldLedger(h, e) ELSE NewLedger]
    /\ points = [s \in Strategies |-> 0]
    /\ run_status = "running"
    /\ algorithm_holdings = [s \in Strategies |-> NewLedger]
    /\ points_tally = [s \in Strategies |-> 0]
    /\ phase \in {"scoring", "client"}
    /\ \E td \in TimeDeltas : time_delta = td /\ td_doc = td
    /\ last = NoCall

\* update_points_and_trades called inside the training run with a quantity
\* its caller did not check
update_points_and_trades_call(s, t, qty, current_price) ==
    /\ phase = "scoring"
    /\ run_status = "running"
    /\ trading_simulator[s].total_trades < MaxTrades
    /\ LET held == t \in DOMAIN trading_simulator[s].holdings
           entry == trading_simulator[s].holdings[t].price
           r == IF held
                THEN update_points_and_trades(s,
                         [n |-> current_price * entry.d, d |-> entry.n],
                         current_price, trading_simulator, points,
                         time_delta, t, qty)
                ELSE \* KeyError on holdings[ticker]
                     [sim |-> trading_simulator, points |-> points,
                      raised |-> TRUE]
       IN  /\ trading_simulator' = r.sim
           /\ points' = r.points
           /\ run_status' = IF r.raised THEN "failed" ELSE run_status
           /\ last' = Call("update_points_and_trades", s, t, "sell",
                            trading_simulator[s], r.sim[s], r.raised)
    /\ UNCHANGED <<time_delta, algorithm_holdings, points_tally, td_doc, phase,
                   rank_vars, fuse_vars, thread_vars, day_vars>>

\* one pass of the strategy loop of ranking_client.py main(), mode 'train'
ranking_client_main(s, t, decision, qty, current_price) ==
    /\ phase = "client"
    /\ run_status = "running"
    /\ trading_simulator[s].total_trades < MaxTrades
    /\ LET r == main_train_trade(decision, qty, t, current_price, s,
                                 trading_simulator, points, time_delta)
       IN  /\ trading_simulator' = r.sim
           /\ points' = r.points
           /\ run_status' = IF r.raised THEN "failed" ELSE run_status
           /\ last' = Call("main", s, t, decision,
                            trading_simulator[s], r.sim[s], r.raised)
    /\ UNCHANGED <<time_delta, algorithm_holdings, points_tally, td_doc, phase,
                   rank_vars, fuse_vars, thread_vars, day_vars>>

NextScoring ==
    \/ \E s \in Traders, t \in ScoreTickers, q \in ScoreQtys :
         \E p \in ScorePrices : update_points_and_trades_call(s, t, q, p)
    \/ \E s \in Traders, t \in ScoreTickers, d \in Decisions :
         \E q \in ClientQtys, p \in ScorePrices :
            ranking_client_main(s, t, d, q, p)

SpecScoring == InitScoring /\ [][NextScoring]_vars

NegativeHolding ==
    \E s \in Strategies :
       \E t \in DOMAIN trading_simulator[s].holdings :
          trading_simulator[s].holdings[t].quantity < 0

----------------------------------------------------------------------------
(* Ranking: utilities/ranking_trading_utils.py update_ranks,                *)
(* TradeSim/testing.py update_strategy_ranks,                               *)
(* TradeSim/trading.py initialize_strategy_coefficients                     *)

MaxRuns == 2

\* the list `strategies`, in the order it is iterated
StrategyList == <<"BBANDS_indicator", "MACD_indicator", "RSI_indicator">>

\* str comparison of the names that occur: upper case sorts before lower
NameOrder == <<"BBANDS_indicator", "MACD_indicator", "RSI_indicator", "test">>
NameIdx(name) == CHOOSE i \in 1..Len(NameOrder) : NameOrder[i] = name

\* a < b on tuples (score, performance_diff, amount_cash, strategy_name)
TupleLT(a, b) ==
    \/ a[1] < b[1]
    \/ a[1] = b[1] /\ a[2] < b[2]
    \/ a[1] = b[1] /\ a[2] = b[2] /\ a[3] < b[3]
    \/ a[1] = b[1] /\ a[2] = b[2] /\ a[3] = b[3]
         /\ NameIdx(a[4]) < NameIdx(b[4])

\* the item heapq.heappop returns
HeapMin(q) == CHOOSE m \in q : \A x \in q \ {m} : TupleLT(m, x)

\* score with the points counted once
ScoreTuple_points_once(doc, total_points, strategy_name) ==
    <<IF total_points > 0
      THEN total_points + PerMille * doc.portfolio_value
      ELSE PerMille * doc.portfolio_value,
      doc.successful_trades - doc.failed_trades,
      doc.amount_cash,
      strategy_name>>

\* the tuple pushed for one strategy; the score is in thousandths, like the
\* points
ScoreTuple(doc, total_points, strategy_name) ==
    <<IF total_points > 0
      THEN total_points * 2 + PerMille * doc.portfolio_value
      ELSE PerMille * doc.portfolio_value,
      doc.successful_trades - doc.failed_trades,
      doc.amount_cash,
      strategy_name>>

\* rank_coll.delete_many({}) that deletes nothing
delete_many_nothing(coll) == coll

\* rank_coll.delete_many({})
delete_many(coll) == <<>>

\* rank_collection.find_one({"strategy": name}): the rank of the first
\* matching document, 0 for None
find_one_rank(coll, name) ==
    IF \E i \in 1..Len(coll) : coll[i].strategy = name
    THEN coll[CHOOSE i \in 1..Len(coll) :
                /\ coll[i].strategy = name
                /\ \A j \in 1..(i - 1) : coll[j].strategy # name].rank
    ELSE 0

ExcludedStrategies == {"test", "test_strategy"}

\* update_ranks, first statement
ur_delete_many ==
    /\ ur_pc = "idle"
    /\ runs < MaxRuns
    /\ prev_rank' = rank_coll
    /\ rank_coll' = delete_many(rank_coll)
    /\ ur_pc' = "cleared"
    /\ UNCHANGED <<ledger_vars, heap, rank, runs, HistoricalDatabase,
                   rank_dict, reader, fuse_vars, thread_vars, day_vars>>

\* update_ranks: the cache is cleared and the heap is filled from the
\* ledgers and the tallies
ur_build_heap ==
    /\ ur_pc = "cleared"
    /\ HistoricalDatabase' = {}
    /\ heap' = {ScoreTuple(algorithm_holdings[n],
                    IF n \in DOMAIN points_tally THEN points_tally[n] ELSE 0,
                    n) : n \in (DOMAIN algorithm_holdings) \ ExcludedStrategies}
    /\ rank' = 1
    /\ ur_pc' = "ranking"
    /\ UNCHANGED <<ledger_vars, rank_coll, runs, prev_rank, rank_dict, reader,
                   fuse_vars, thread_vars, day_vars>>

\* update_ranks: one turn of `while heap`
ur_insert_one ==
    /\ ur_pc = "ranking"
    /\ heap # {}
    /\ LET m == HeapMin(heap)
       IN  /\ rank_coll' = Append(rank_coll, [strategy |-> m[4], rank |-> rank])
           /\ heap' = heap \ {m}
    /\ rank' = rank + 1
    /\ UNCHANGED <<ledger_vars, ur_pc, runs, prev_rank, HistoricalDatabase,
                   rank_dict, reader, fuse_vars, thread_vars, day_vars>>

\* update_ranks returns
ur_return ==
    /\ ur_pc = "ranking"
    /\ heap = {}
    /\ ur_pc' = "idle"
    /\ runs' = runs + 1
    /\ UNCHANGED <<ledger_vars, rank_coll, heap, rank, prev_rank,
                   HistoricalDatabase, rank_dict, reader, fuse_vars, thread_vars, day_vars>>

\* the `while q` loop of update_strategy_ranks: pop, assign, count up
RECURSIVE AssignRanks(_, _)
AssignRanks(q, coeff_rank) ==
    IF q = {} THEN <<>>
    ELSE LET m == HeapMin(q)
         IN  (m[4] :> coeff_rank) @@ AssignRanks(q \ {m}, coeff_rank + 1)

update_strategy_ranks(strategies, pts, sim) ==
    AssignRanks({ScoreTuple(sim[n], pts[n], n) : n \in strategies}, 1)

\* testing.py ranks the in-memory ledgers before the ranking client runs
update_strategy_ranks_call ==
    /\ DOMAIN rank_dict = {}
    /\ ur_pc = "idle" /\ runs = 0 /\ reader.pc = "idle"
    /\ rank_dict' = update_strategy_ranks(Strategies, points, trading_simulator)
    /\ UNCHANGED <<ledger_vars, rank_coll, heap, rank, ur_pc, runs, prev_rank,
                   HistoricalDatabase, reader, fuse_vars, thread_vars, day_vars>>

\* One turn of the loop of initialize_strategy_coefficients: find_one for the
\* next strategy; None["rank"] raises TypeError and ends the load.
initialize_strategy_coefficients ==
    /\ reader.pc \in {"idle", "reading"}
    /\ LET i == Len(reader.seen) + 1
           r == find_one_rank(rank_coll, StrategyList[i])
       IN  reader' = [pc |-> IF r = 0 THEN "crashed"
                             ELSE IF i = Len(StrategyList) THEN "done"
                             ELSE "reading",
                      started |-> IF reader.pc = "idle" THEN runs
                                  ELSE reader.started,
                      seen |-> Append(reader.seen, r)]
    /\ UNCHANGED <<ledger_vars, rank_coll, heap, rank, ur_pc, runs, prev_rank,
                   HistoricalDatabase, rank_dict, fuse_vars, thread_vars, day_vars>>

\* update_ranks of ranking_client.py, called by its main() when the market
\* has closed: the table is deleted, then the tally of every ledger is
\* subscripted without a test.  A ledger without a tally raises TypeError
\* out of main(): nothing has been inserted yet, the cache is not cleared.
ranking_client_update_ranks ==
    /\ ur_pc = "idle"
    /\ runs < MaxRuns
    /\ prev_rank' = rank_coll
    /\ LET names == (DOMAIN algorithm_holdings) \ ExcludedStrategies
       IN  IF names \subseteq DOMAIN points_tally
           THEN LET q == {ScoreTuple(algorithm_holdings[n], points_tally[n], n) : n \in names}
                    ranks == AssignRanks(q, 1)
                IN  /\ rank_coll' = [i \in 1..Cardinality(names) |->
                            [strategy |-> CHOOSE n \in names : ranks[n] = i,
                             rank |-> i]]
                    /\ HistoricalDatabase' = {}
                    /\ runs' = runs + 1
                    /\ UNCHANGED ur_pc
           ELSE /\ rank_coll' = delete_many(rank_coll)
                /\ ur_pc' = "crashed"
                /\ UNCHANGED <<HistoricalDatabase, runs>>
    /\ UNCHANGED <<ledger_vars, heap, rank, rank_dict, reader, fuse_vars, thread_vars,
                   day_vars>>

\* what the rank engine reads of a ledger and its tally
RankProfiles ==
    {[tallied |-> TRUE, pts |-> 0, pv |-> 50000, succ |-> 0, failed |-> 0,
      cash |-> 50000],
     [tallied |-> TRUE, pts |-> 1000, pv |-> 49998, succ |-> 1, failed |-> 1,
      cash |-> 49998],
     [tallied |-> TRUE, pts |-> 0, pv |-> 50000, succ |-> 0, failed |-> 1,
      cash |-> 50000],
     [tallied |-> TRUE, pts |-> 0, pv |-> 50000, succ |-> 1, failed |-> 0,
      cash |-> 50000],
     [tallied |-> TRUE, pts |-> 0, pv |-> 50000, succ |-> 0, failed |-> 0,
      cash |-> 40000],
     [tallied |-> FALSE, pts |-> 0, pv |-> 50001, succ |-> 0, failed |-> 0,
      cash |-> 50001]}

ProfileLedger(pr) ==
    [NewLedger EXCEPT !.portfolio_value = pr.pv,
                      !.successful_trades = pr.succ,
                      !.failed_trades = pr.failed,
                      !.total_trades = pr.succ + pr.failed,
                      !.amount_cash = pr.cash]

\* The ledgers at some market close; a "test" ledger is in the collection.
InitRank ==
    /\ RankIdle
    /\ FuseIdle
    /\ ThreadIdle
    /\ DayIdle
    /\ \E pf \in [Strategies -> RankProfiles] :
         /\ trading_simulator = [n \in Strategies |-> ProfileLedger(pf[n])]
         /\ points = [n \in Strategies |-> pf[n].pts]
         /\ algorithm_holdings =
              [n \in Strategies \cup {"test"} |->
                  IF n = "test" THEN NewLedger ELSE ProfileLedger(pf[n])]
         /\ points_tally =
              [n \in {x \in Strategies : pf[x].tallied} |-> pf[n].pts]
    /\ run_status = "running"
    /\ phase = "rank"
    /\ time_delta = 1 /\ td_doc = 1
    /\ last = NoCall

NextRank ==
    \/ ur_delete_many
    \/ ur_build_heap
    \/ ur_insert_one
    \/ ur_return
    \/ ranking_client_update_ranks
    \/ update_strategy_ranks_call
    \/ initialize_strategy_coefficients

SpecRank == InitRank /\ [][NextRank]_vars

----------------------------------------------------------------------------
(* Ranking claims *)

\* the strategies the engine ranks: every ledger but the excluded ones
Ranked == (DOMAIN algorithm_holdings) \ ExcludedStrategies

RanRun == ur_pc = "idle" /\ runs >= 1

\* the table holds exactly one document per strategy of S and its ranks
\* are exactly 1..N
OneToOneOnto(table, S) ==
    /\ Len(table) = Cardinality(S)
    /\ {table[i].strategy : i \in 1..Len(table)} = S
    /\ {table[i].rank : i \in 1..Len(table)} = 1..Cardinality(S)

\* C5: after every completed run of update_ranks the rank collection maps
\* the non-excluded strategies one-to-one onto 1..N, and a run that starts
\* from the table of the run before, on the same ledgers and tallies, ends
\* with that same table; the dict update_strategy_ranks returns maps the
\* strategies one-to-one onto 1..N too.
C5_RankBijection ==
    /\ RanRun => OneToOneOnto(rank_coll, Ranked)
    /\ (RanRun /\ runs >= 2) => rank_coll = prev_rank
    /\ DOMAIN rank_dict # {} =>
          /\ DOMAIN rank_dict = Strategies
          /\ {rank_dict[n] : n \in Strategies} = 1..Cardinality(Strategies)

\* a second run has rebuilt the table
C5_Witness ==
    /\ RanRun
    /\ runs = 2
    /\ Len(rank_coll) = Cardinality(Strategies)
    /\ prev_rank # <<>>

\* the ordering the specification states, from the stored numbers: points
\* are in thousandths, so the score is too
SpecScore(n) ==
    LET total_points == IF n \in DOMAIN points_tally THEN points_tally[n] ELSE 0
    IN  IF total_points > 0
        THEN 2 * total_points + 1000 * algorithm_holdings[n].portfolio_value
        ELSE 1000 * algorithm_holdings[n].portfolio_value

SpecDiff(n) ==
    algorithm_holdings[n].successful_trades - algorithm_holdings[n].failed_trades

SpecBefore(a, b) ==
    \/ SpecScore(a) < SpecScore(b)
    \/ SpecScore(a) = SpecScore(b) /\ SpecDiff(a) < SpecDiff(b)
    \/ SpecScore(a) = SpecScore(b) /\ SpecDiff(a) = SpecDiff(b)
         /\ algorithm_holdings[a].amount_cash < algorithm_holdings[b].amount_cash
    \/ SpecScore(a) = SpecScore(b) /\ SpecDiff(a) = SpecDiff(b)
         /\ algorithm_holdings[a].amount_cash = algorithm_holdings[b].amount_cash
         /\ NameIdx(a) < NameIdx(b)

FinalRank(n) == 1 + Cardinality({m \in Ranked : SpecBefore(m, n)})

\* C6 (as claimed): whatever initialize_strategy_coefficients has read so
\* far is what one complete table holds: the table of the finished run, or,
\* for a load begun before the first run ended, the empty collection setup
\* left (the load then stops at its first find_one).
C6_ReaderSeesWholeTable ==
    \/ \A i \in 1..Len(reader.seen) :
          reader.seen[i] = FinalRank(StrategyList[i])
    \/ reader.started = 0 /\ reader.seen = <<0>>

----------------------------------------------------------------------------
(* Decision fusion: utilities/common_utils.py and trading_client.py         *)
(* weighted_majority_decision_and_median_quantity                           *)

MaxVotes == 3
FuseQtys == {2, 7}
FuseWeights == {1, 2}

\* what one strategy contributes: (decision, quantity, weight); a hold
\* comes with quantity 0 (compute_trade_quantities)
VoteSet ==
    ({"buy", "strong buy", "sell", "strong sell"} \X FuseQtys \X FuseWeights)
      \cup ({"hold"} \X {0} \X FuseWeights)

buy_decisions == {"buy", "strong buy"}
sell_decisions == {"sell", "strong sell"}

\* sorted(xs)
RECURSIVE Insert(_, _)
Insert(x, xs) ==
    IF xs = <<>> THEN <<x>>
    ELSE IF x <= Head(xs) THEN <<x>> \o xs
    ELSE <<Head(xs)>> \o Insert(x, Tail(xs))

RECURSIVE Sorted(_)
Sorted(xs) == IF xs = <<>> THEN <<>> ELSE Insert(Head(xs), Sorted(Tail(xs)))

\* statistics.median: the middle value, or the mean of the two middle ones
median(xs) ==
    LET data == Sorted(xs)
        n == Len(data)
    IN  IF n % 2 = 1 THEN Rat(data[(n + 1) \div 2], 1)
        ELSE Rat(data[n \div 2] + data[n \div 2 + 1], 2)

\* the quantities appended for the decisions in `decs`, in input order
RECURSIVE Quantities(_, _)
Quantities(dq, decs) ==
    IF dq = <<>> THEN <<>>
    ELSE (IF Head(dq)[1] \in decs THEN <<Head(dq)[2]>> ELSE <<>>)
            \o Quantities(Tail(dq), decs)

\* the quantities, each repeated weight times
RECURSIVE QuantitiesByWeight(_, _)
QuantitiesByWeight(dq, decs) ==
    IF dq = <<>> THEN <<>>
    ELSE (IF Head(dq)[1] \in decs
          THEN [i \in 1..Head(dq)[3] |-> Head(dq)[2]] ELSE <<>>)
            \o QuantitiesByWeight(Tail(dq), decs)

\* the weight accumulated for the decisions in `decs`
RECURSIVE Weight(_, _)
Weight(dq, decs) ==
    IF dq = <<>> THEN 0
    ELSE (IF Head(dq)[1] \in decs THEN Head(dq)[3] ELSE 0)
            + Weight(Tail(dq), decs)

Fusion(decision, quantity, bw, sw, hw) ==
    [decision |-> decision, quantity |-> quantity, buy_weight |-> bw,
     sell_weight |-> sw, hold_weight |-> hw]

\* the fusion with every quantity entered weight times into its bucket
fusion_with_weighted_median(decisions_and_quantities) ==
    LET weighted_buy_quantities == QuantitiesByWeight(decisions_and_quantities, buy_decisions)
        weighted_sell_quantities == QuantitiesByWeight(decisions_and_quantities, sell_decisions)
        buy_weight == Weight(decisions_and_quantities, buy_decisions)
        sell_weight == Weight(decisions_and_quantities, sell_decisions)
        hold_weight == Weight(decisions_and_quantities, {"hold"})
    IN  IF buy_weight > sell_weight /\ buy_weight > hold_weight
        THEN Fusion("buy",
                    IF weighted_buy_quantities # <<>>
                    THEN median(weighted_buy_quantities) ELSE Rat(0, 1),
                    buy_weight, sell_weight, hold_weight)
        ELSE IF sell_weight > buy_weight /\ sell_weight > hold_weight
        THEN Fusion("sell",
                    IF weighted_sell_quantities # <<>>
                    THEN median(weighted_sell_quantities) ELSE Rat(0, 1),
                    buy_weight, sell_weight, hold_weight)
        ELSE Fusion("hold", Rat(0, 1), buy_weight, sell_weight, hold_weight)

\* the fusion with a tie for the largest weight resolved to buy
fusion_with_ties_to_buy(decisions_and_quantities) ==
    LET weighted_buy_quantities == Quantities(decisions_and_quantities, buy_decisions)
        weighted_sell_quantities == Quantities(decisions_and_quantities, sell_decisions)
        buy_weight == Weight(decisions_and_quantities, buy_decisions)
        sell_weight == Weight(decisions_and_quantities, sell_decisions)
        hold_weight == Weight(decisions_and_quantities, {"hold"})
    IN  IF buy_weight >= sell_weight /\ buy_weight >= hold_weight
        THEN Fusion("buy",
                    IF weighted_buy_quantities # <<>>
                    THEN median(weighted_buy_quantities) ELSE Rat(0, 1),
                    buy_weight, sell_weight, hold_weight)
        ELSE IF sell_weight > buy_weight /\ sell_weight > hold_weight
        THEN Fusion("sell",
                    IF weighted_sell_quantities # <<>>
                    THEN median(weighted_sell_quantities) ELSE Rat(0, 1),
                    buy_weight, sell_weight, hold_weight)
        ELSE Fusion("hold", Rat(0, 1), buy_weight, sell_weight, hold_weight)

weighted_majority_decision_and_median_quantity(decisions_and_quantities) ==
    LET weighted_buy_quantities == Quantities(decisions_and_quantities, buy_decisions)
        weighted_sell_quantities == Quantities(decisions_and_quantities, sell_decisions)
        buy_weight == Weight(decisions_and_quantities, buy_decisions)
        sell_weight == Weight(decisions_and_quantities, sell_decisions)
        hold_weight == Weight(decisions_and_quantities, {"hold"})
    IN  IF buy_weight > sell_weight /\ buy_weight > hold_weight
        THEN Fusion("buy",
                    IF weighted_buy_quantities # <<>>
                    THEN median(weighted_buy_quantities) ELSE Rat(0, 1),
                    buy_weight, sell_weight, hold_weight)
        ELSE IF sell_weight > buy_weight /\ sell_weight > hold_weight
        THEN Fusion("sell",
                    IF weighted_sell_quantities # <<>>
                    THEN median(weighted_sell_quantities) ELSE Rat(0, 1),
                    buy_weight, sell_weight, hold_weight)
        ELSE Fusion("hold", Rat(0, 1), buy_weight, sell_weight, hold_weight)

\* trading.py: one strategy's (decision, quantity, weight) is appended
append_decision(v) ==
    /\ fused = NoFusion
    /\ Len(votes) < MaxVotes
    /\ votes' = Append(votes, v)
    /\ UNCHANGED <<ledger_vars, rank_vars, day_vars, thread_vars, fused>>

\* trading.py: the list is fused
fuse ==
    /\ fused = NoFusion
    /\ fused' = weighted_majority_decision_and_median_quantity(votes)
    /\ UNCHANGED <<ledger_vars, rank_vars, day_vars, thread_vars, votes>>

InitFuse ==
    /\ RankIdle
    /\ FuseIdle
    /\ ThreadIdle
    /\ DayIdle
    /\ trading_simulator = [s \in Strategies |-> NewLedger]
    /\ points = [s \in Strategies |-> 0]
    /\ run_status = "running"
    /\ algorithm_holdings = [s \in Strategies |-> NewLedger]
    /\ points_tally = [s \in Strategies |-> 0]
    /\ phase = "trade"
    /\ time_delta = 1 /\ td_doc = 1
    /\ last = NoCall

NextFuse ==
    \/ \E v \in VoteSet : append_decision(v)
    \/ fuse

SpecFuse == InitFuse /\ [][NextFuse]_vars

----------------------------------------------------------------------------
(* Fusion claims *)

\* the weight submitted for a bucket: the sum over the votes of that bucket
RECURSIVE BucketSum(_, _)
BucketSum(i, decs) ==
    IF i = 0 THEN 0
    ELSE BucketSum(i - 1, decs) + (IF votes[i][1] \in decs THEN votes[i][3] ELSE 0)

BuySum == BucketSum(Len(votes), {"buy", "strong buy"})
SellSum == BucketSum(Len(votes), {"sell", "strong sell"})
HoldSum == BucketSum(Len(votes), {"hold"})

\* C8: the fusion returns buy exactly when the buy weight is strictly above
\* both the sell and the hold weight, sell exactly when the sell weight is
\* strictly above both others, and hold in every other case: every tie for
\* the largest sum and the empty list included.
C8_StrictMajority ==
    fused # NoFusion =>
       /\ fused.decision = "buy" <=> (BuySum > SellSum /\ BuySum > HoldSum)
       /\ fused.decision = "sell" <=> (SellSum > BuySum /\ SellSum > HoldSum)
       /\ fused.decision = "hold" <=>
             ~ \/ (BuySum > SellSum /\ BuySum > HoldSum)
               \/ (SellSum > BuySum /\ SellSum > HoldSum)

\* a tie for the largest weight between buy and sell has been fused to hold
C8_Witness ==
    /\ fused.decision = "hold"
    /\ BuySum = SellSum
    /\ BuySum > HoldSum

\* the indices of the votes in the bucket that won, and twice the median of
\* their quantities: the value with as many of them at or below as at or
\* above (the two middle values added when the count is even)
Winners ==
    {i \in 1..Len(votes) :
        \/ fused.decision = "buy" /\ votes[i][1] \in {"buy", "strong buy"}
        \/ fused.decision = "sell" /\ votes[i][1] \in {"sell", "strong sell"}}

\* the k-th smallest quantity among the winners
Kth(k) ==
    CHOOSE x \in {votes[i][2] : i \in Winners} :
       /\ Cardinality({i \in Winners : votes[i][2] < x}) < k
       /\ Cardinality({i \in Winners : votes[i][2] <= x}) >= k

TwiceMedian ==
    LET n == Cardinality(Winners)
    IN  IF n = 0 THEN 0
        ELSE IF n % 2 = 1 THEN 2 * Kth((n + 1) \div 2)
        ELSE Kth(n \div 2) + Kth(n \div 2 + 1)

----------------------------------------------------------------------------
(* Neutral sells *)

\* the change a sell at exactly the entry price must make: one more neutral
\* trade, the other two counters and the points as they were
NeutralAsClaimed(before, after, pb, pa) ==
    /\ after.neutral_trades = before.neutral_trades + 1
    /\ after.successful_trades = before.successful_trades
    /\ after.failed_trades = before.failed_trades
    /\ pa = pb

\* C11 (as claimed): in every reachable ledger state of either client, a
\* sell of a held ticker at exactly its entry price adds 1 to neutral_trades
\* and leaves successful_trades, failed_trades and the strategy's points
\* unchanged.
C11_NeutralSellKeepsPoints ==
    \A s \in Strategies, t \in Tickers, q \in Qtys \cup LiveQtys :
      \A p \in PricesOf(t) :
        /\ (/\ t \in DOMAIN trading_simulator[s].holdings
            /\ q <= HeldQty(trading_simulator[s].holdings, t)
            /\ PriceEQ(p, EntryOf(trading_simulator[s], t)))
           => LET r == TrainResult(s, t, "sell", q, p)
              IN  NeutralAsClaimed(trading_simulator[s], r.sim[s],
                                   points[s], r.points[s])
        /\ (/\ t \in DOMAIN algorithm_holdings[s].holdings
            /\ PriceEQ(p, EntryOf(algorithm_holdings[s], t)))
           => LET r == LiveResult(s, t, "sell", q, p)
              IN  NeutralAsClaimed(algorithm_holdings[s], r.doc,
                                   points_tally[s], r.tally[s])


----------------------------------------------------------------------------
(* The day loop: TradeSim/training.py train(), TradeSim/ranking.py main()   *)

MaxDays == 2

\* the ticker traded in the days explored, and its closing prices
DayTicker == "AAPL"
DayPrices == {100, 110}
\* seeds, in hundredths, that a fifth can be taken of on every day explored
DayTimeDeltas == {125, 250}
DayQtys == {20}

train_time_delta_mode == "balanced"
train_time_delta_increment == 1
train_time_delta_multiplicative == 101
train_time_delta_balanced == 2
time_delta_mode == "balanced"
time_delta_increment == 1
time_delta_multiplicative == 101
time_delta_balanced == 2

\* update_time_delta applied twice
update_time_delta_twice(td, mode) ==
    IF mode = "additive" THEN td + 2 * train_time_delta_increment
    ELSE IF mode = "multiplicative"
    THEN (((td * train_time_delta_multiplicative) \div 100)
             * train_time_delta_multiplicative) \div 100
    ELSE IF mode = "balanced"
    THEN LET once == td + (train_time_delta_balanced * td) \div 10
         IN  once + (train_time_delta_balanced * once) \div 10
    ELSE td

\* update_time_delta: time_delta in hundredths, the increment in hundredths,
\* the multiplier in hundredths, the balanced share in tenths
update_time_delta(td, mode) ==
    IF mode = "additive" THEN td + train_time_delta_increment
    ELSE IF mode = "multiplicative"
    THEN (td * train_time_delta_multiplicative) \div 100
    ELSE IF mode = "balanced"
    THEN td + (train_time_delta_balanced * td) \div 10
    ELSE td

RECURSIVE SumOver(_, _, _)
SumOver(held, holdings, price) ==
    IF held = {} THEN 0
    ELSE LET t == CHOOSE x \in held : TRUE
         IN  holdings[t].quantity * price[t]
               + SumOver(held \ {t}, holdings, price)

\* local_update_portfolio_values: cash plus the priced holdings; a holding
\* without a price on the date (price 0 here) adds nothing
local_update_portfolio_values(sim, price) ==
    [n \in DOMAIN sim |->
        [sim[n] EXCEPT !.portfolio_value =
            sim[n].amount_cash
              + SumOver({t \in DOMAIN sim[n].holdings : price[t] # 0},
                        sim[n].holdings, price)]]

\* update_portfolio_values (TradeSim/ranking.py): a holding whose latest
\* price is None or 0 counts for 5000
update_portfolio_values(coll, price) ==
    [n \in DOMAIN coll |->
        [coll[n] EXCEPT !.portfolio_value =
            coll[n].amount_cash
              + SumOver({t \in DOMAIN coll[n].holdings : price[t] # 0},
                        coll[n].holdings, price)
              + 5000 * Cardinality({t \in DOMAIN coll[n].holdings :
                                      price[t] = 0})]]

\* update_ranks run from its first statement to its return: the documents
\* inserted, in order
RECURSIVE InsertRanks(_, _)
InsertRanks(q, r) ==
    IF q = {} THEN <<>>
    ELSE LET m == HeapMin(q)
         IN  <<[strategy |-> m[4], rank |-> r]>> \o InsertRanks(q \ {m}, r + 1)

update_ranks(coll, tally) ==
    InsertRanks({ScoreTuple(coll[n],
                    IF n \in DOMAIN tally THEN tally[n] ELSE 0, n) :
                 n \in (DOMAIN coll) \ ExcludedStrategies}, 1)

DayPriceMaps == {[t \in Tickers |-> IF t = DayTicker THEN p ELSE 100] : p \in DayPrices}

\* train(): `if date_str not in dates`: a weekend or a holiday is stepped over
train_skip_day ==
    /\ phase = "train" /\ run_status = "running"
    /\ ~cal.in_day /\ cal.date < MaxDays + 1
    /\ cal' = [cal EXCEPT !.date = @ + 1]
    /\ UNCHANGED <<ledger_vars, rank_vars, fuse_vars, thread_vars, account, buy_heap,
                   suggestion_heap, orders>>

\* train(): the date is a trading day; simulate_trading_day is entered with
\* the prices of the date and the current time_delta
train_day_begins ==
    /\ phase = "train" /\ run_status = "running"
    /\ ~cal.in_day /\ cal.days < MaxDays
    /\ \E price \in DayPriceMaps :
         cal' = [cal EXCEPT !.in_day = TRUE, !.days = @ + 1, !.price = price,
                            !.td_prev_day = cal.td_day, !.td_day = time_delta]
    /\ UNCHANGED <<ledger_vars, rank_vars, fuse_vars, thread_vars, account, buy_heap,
                   suggestion_heap, orders>>

\* train(): simulate_trading_day has returned; the portfolio values are
\* refreshed, time_delta is updated and the date moves on
train_day_ends ==
    /\ phase = "train" /\ run_status = "running"
    /\ cal.in_day
    /\ trading_simulator' = local_update_portfolio_values(trading_simulator, cal.price)
    /\ time_delta' = update_time_delta(time_delta, train_time_delta_mode)
    /\ cal' = [cal EXCEPT !.in_day = FALSE, !.date = @ + 1]
    /\ UNCHANGED <<points, run_status, algorithm_holdings, points_tally,
                   td_doc, phase, last, rank_vars, fuse_vars, thread_vars, account,
                   buy_heap, suggestion_heap, orders>>

\* market_status() over the NYSE calendar: what can be read after s
NextStatus(s) ==
    IF s = "none" THEN {"closed", "early_hours", "open"}
    ELSE IF s = "closed" THEN {"closed", "early_hours"}
    ELSE IF s = "early_hours" THEN {"early_hours", "open"}
    ELSE {"open", "closed"}

\* main(), status "open": process_market_open is entered
process_market_open ==
    /\ phase = "live" /\ ~cal.in_day
    /\ "open" \in NextStatus(cal.status)
    /\ cal.status # "open" => cal.days < MaxDays
    /\ cal' = IF cal.status # "open"
              THEN [cal EXCEPT !.status = "open", !.in_day = TRUE,
                               !.days = @ + 1, !.td_prev_day = cal.td_day,
                               !.td_day = td_doc]
              ELSE [cal EXCEPT !.in_day = TRUE]
    /\ UNCHANGED <<ledger_vars, rank_vars, fuse_vars, thread_vars, account, buy_heap,
                   suggestion_heap, orders>>

\* main(): process_market_open has returned and both flags are reset
process_market_open_returns ==
    /\ phase = "live" /\ cal.in_day
    /\ cal' = [cal EXCEPT !.in_day = FALSE,
                          !.early_hour_first_iteration = TRUE,
                          !.post_market_hour_first_iteration = TRUE]
    /\ UNCHANGED <<ledger_vars, rank_vars, fuse_vars, thread_vars, account, buy_heap,
                   suggestion_heap, orders>>

\* main(), status "early_hours"
process_early_hours ==
    /\ phase = "live" /\ ~cal.in_day
    /\ "early_hours" \in NextStatus(cal.status)
    /\ cal' = [cal EXCEPT !.status = "early_hours",
                          !.early_hour_first_iteration = FALSE,
                          !.post_market_hour_first_iteration = TRUE]
    /\ UNCHANGED <<ledger_vars, rank_vars, fuse_vars, thread_vars, account, buy_heap,
                   suggestion_heap, orders>>

\* what process_market_closed leaves in the time_delta document; 0 stands
\* for no document
process_market_closed_td(current_td) ==
    IF current_td = 0 THEN 100
    ELSE IF time_delta_mode = "additive" THEN current_td + time_delta_increment
    ELSE IF time_delta_mode = "multiplicative"
    THEN (current_td * time_delta_multiplicative) \div 100
    ELSE current_td + (current_td * time_delta_balanced) \div 10

\* main(), status "closed"
process_market_closed ==
    /\ phase = "live" /\ ~cal.in_day
    /\ "closed" \in NextStatus(cal.status)
    /\ IF cal.post_market_hour_first_iteration
       THEN \E price \in DayPriceMaps \cup {[t \in Tickers |-> 0]} :
              LET valued == update_portfolio_values(algorithm_holdings, price)
              IN  /\ td_doc' = process_market_closed_td(td_doc)
                  /\ algorithm_holdings' = valued
                  /\ prev_rank' = rank_coll
                  /\ rank_coll' = update_ranks(valued, points_tally)
                  /\ HistoricalDatabase' = {}
       ELSE UNCHANGED <<td_doc, algorithm_holdings, prev_rank, rank_coll,
                        HistoricalDatabase>>
    /\ cal' = [cal EXCEPT !.status = "closed",
                          !.post_market_hour_first_iteration = FALSE,
                          !.early_hour_first_iteration = TRUE]
    /\ UNCHANGED <<trading_simulator, points, time_delta, run_status,
                   points_tally, phase, last, heap, rank, ur_pc, runs,
                   rank_dict, reader, fuse_vars, thread_vars, account, buy_heap,
                   suggestion_heap, orders>>

\* One iteration of the strategy loop of process_ticker (TradeSim/ranking.py)
\* after get_latest_price has failed: it logs and returns None, nothing is
\* raised, so the `except: return` is passed and simulate_trade is called
\* with current_price None.  A buy raises TypeError in the cash test, a
\* sell of a held ticker raises it in the price ratio, before anything is
\* written; anything else writes nothing.  The loop catches the error.
process_ticker_no_price(s, t, action, quantity) ==
    /\ phase = "live" /\ cal.in_day
    /\ algorithm_holdings[s].total_trades < MaxTrades
    /\ last' = [op |-> "simulate_trade", strategy |-> s, ticker |-> t,
                decision |-> action, outcome |-> "no_price"]
    /\ UNCHANGED <<trading_simulator, points, time_delta, run_status,
                   algorithm_holdings, points_tally, td_doc, phase,
                   rank_vars, fuse_vars, thread_vars, day_vars>>

InitDay ==
    /\ RankIdle
    /\ FuseIdle
    /\ ThreadIdle
    /\ DayIdle
    /\ trading_simulator = [s \in Strategies |-> NewLedger]
    /\ points = [s \in Strategies |-> 0]
    /\ run_status = "running"
    /\ algorithm_holdings = [s \in Strategies |-> NewLedger]
    /\ points_tally = [s \in Strategies |-> 0]
    /\ phase \in {"train", "live"}
    /\ \E td \in DayTimeDeltas : time_delta = td /\ td_doc = td
    /\ last = NoCall

NextDay ==
    \/ train_skip_day
    \/ train_day_begins
    \/ \E s \in Traders, na \in {-1, 0, 1} :
         cal.in_day /\ simulate_trading_day(s, DayTicker, cal.price[DayTicker], na)
    \/ train_day_ends
    \/ process_market_open
    \/ \E s \in Traders, dc \in Decisions, q \in DayQtys, p \in DayPrices :
         cal.in_day /\ process_ticker(s, DayTicker, dc, q, p)
    \/ \E s \in Traders, dc \in Decisions, q \in DayQtys :
         process_ticker_no_price(s, DayTicker, dc, q)
    \/ process_market_open_returns
    \/ process_early_hours
    \/ process_market_closed

SpecDay == InitDay /\ [][NextDay]_vars

\* the time delta in force: train() passes its local, simulate_trade reads
\* the document
TimeDeltaInForce == IF phase = "train" THEN time_delta ELSE td_doc

\* a fifth more
Grown(td) == (6 * td) \div 5

\* the day's one update has been made
DayClosed ==
    \/ phase = "train" /\ ~cal.in_day /\ cal.days >= 1
    \/ phase = "live" /\ cal.status = "closed" /\ cal.days >= 1

----------------------------------------------------------------------------
(* TradeSim/testing.py test(): the traded account                           *)

\* the list `tickers`, in the order it is iterated
TestTickers == <<"AAPL", "MSFT">>
\* closing prices of the days explored; 0 stands for a date without a price
PriceMap(aapl, msft) == [t \in Tickers |-> IF t = "AAPL" THEN aapl ELSE IF t = "MSFT" THEN msft ELSE 100]
TestPriceMaps == {PriceMap(96, 100), PriceMap(100, 100), PriceMap(106, 100), PriceMap(100, 0)}
\* the signals of the three strategies for the tickers on one date
SignalMap(aapl, msft) == [t \in {"AAPL", "MSFT"} |-> IF t = "AAPL" THEN aapl ELSE msft]
TestSignalMaps == {SignalMap(<<1, 1, 1>>, <<0, 1, 1>>), SignalMap(<<0, 1, 1>>, <<1, 1, 1>>), SignalMap(<<1, 1, 1>>, <<0, 1, 0>>), SignalMap(<<-1, -1, -1>>, <<0, 1, 0>>), SignalMap(<<1, 0, -1>>, <<-1, -1, -1>>)}
\* trading_simulator.rank_to_coefficient as the run finds it: coefficient by
\* rank, growing with the rank; the third table lacks rank 3
CoefficientTables == {<<1, 2, 3>>, <<1, 700000, 800000>>, <<1, 2>>}

train_trade_liquidity_limit == 15000
train_trade_asset_limit == 400
train_suggestion_heap_limit == 600000
train_stop_loss == 30
train_take_profit == 50

\* str comparison of the tickers
TickerOrder == <<"AAPL", "GOOG", "MSFT">>
TickerIdx(t) == CHOOSE i \in 1..Len(TickerOrder) : TickerOrder[i] = t

\* a < b on heap items (key, quantity, ticker); the fourth component, the
\* day the item was pushed, is not part of the item
OrderLT(a, b) ==
    \/ a[1] < b[1]
    \/ a[1] = b[1] /\ a[2] < b[2]
    \/ a[1] = b[1] /\ a[2] = b[2] /\ TickerIdx(a[3]) < TickerIdx(b[3])

\* the largest item instead
OrderMax(h) == CHOOSE m \in h : \A x \in h \ {m} : OrderLT(x, m)

\* the item heapq.heappop returns
OrderMin(h) == CHOOSE m \in h : \A x \in h \ {m} : OrderLT(m, x)

\* initialize_test_account
initialize_test_account ==
    [holdings |-> <<>>, cash |-> start_cash, trades |-> <<>>,
     total_portfolio_value |-> start_cash]

\* check_stop_loss_take_profit that never sells
check_stop_loss_take_profit_off(acct, ticker, current_price) == acct

\* check_stop_loss_take_profit; stop_loss and take_profit are kept in
\* thousandths of a dollar
check_stop_loss_take_profit(acct, ticker, current_price) ==
    IF /\ ticker \in DOMAIN acct.holdings
       /\ acct.holdings[ticker].quantity > 0
       /\ \/ current_price * PerMille < acct.holdings[ticker].stop_loss
          \/ current_price * PerMille > acct.holdings[ticker].take_profit
    THEN [acct EXCEPT
            !.trades = Append(@, [symbol |-> ticker,
                                  quantity |-> acct.holdings[ticker].quantity,
                                  price |-> current_price, action |-> "sell"]),
            !.cash = @ + acct.holdings[ticker].quantity * current_price,
            !.holdings = DelHolding(@, ticker)]
    ELSE acct

\* the votes of the strategies for one ticker: every strategy sizes its trade
\* on the account, and is weighted by its coefficient
TestVotes(signals, current_price, acct, portfolio_qty, coeff) ==
    [i \in 1..Len(StrategyList) |->
        LET action == IF signals[i] = 1 THEN "Buy"
                      ELSE IF signals[i] = -1 THEN "Sell" ELSE "Hold"
            dq == compute_trade_quantities(action, current_price, acct.cash,
                        portfolio_qty, acct.total_portfolio_value)
        IN  <<dq.decision, dq.qty, coeff[StrategyList[i]]>>]

\* the body of `for ticker in tickers` after the price was found; buy keys
\* are kept doubled, quantities are whole because the votes for one decision
\* carry the same quantity
test_ticker_body(acct0, bh, sh, ticker, current_price, signals, coeff, day) ==
    LET acct == check_stop_loss_take_profit(acct0, ticker, current_price)
        portfolio_qty == HeldQty(acct.holdings, ticker)
        f == weighted_majority_decision_and_median_quantity(
                 TestVotes(signals, current_price, acct, portfolio_qty, coeff))
        quantity == f.quantity.n \div f.quantity.d
    IN  IF /\ f.decision = "buy"
           /\ (portfolio_qty + quantity) * current_price * PerMille
                <= train_trade_asset_limit * acct.total_portfolio_value
        THEN [account |-> acct,
              buy_heap |-> bh \cup
                 {<<-(2 * f.buy_weight - (2 * f.sell_weight + f.hold_weight)),
                    quantity, ticker, day>>},
              suggestion_heap |-> sh]
        ELSE IF f.decision = "sell" /\ ticker \in DOMAIN acct.holdings
        THEN [account |-> [acct EXCEPT
                 !.trades = Append(@, [symbol |-> ticker,
                                quantity |-> acct.holdings[ticker].quantity,
                                price |-> current_price, action |-> "sell"]),
                 !.cash = @ + acct.holdings[ticker].quantity * current_price,
                 !.holdings = DelHolding(@, ticker)],
              buy_heap |-> bh, suggestion_heap |-> sh]
        ELSE IF /\ portfolio_qty = 0
                /\ f.buy_weight > f.sell_weight
                /\ quantity * current_price * PerMille
                     < trade_asset_limit * acct.total_portfolio_value
                /\ acct.cash >= train_trade_liquidity_limit
                /\ f.buy_weight > train_suggestion_heap_limit
        THEN LET max_investment == (acct.total_portfolio_value
                                      * train_trade_asset_limit) \div PerMille
                 buy_quantity == Min(max_investment \div current_price,
                                     acct.cash \div current_price)
             IN  [account |-> acct, buy_heap |-> bh,
                  suggestion_heap |-> sh \cup
                     {<<-(f.buy_weight - f.sell_weight),
                        Max(2, buy_quantity) \div 2, ticker, day>>}]
        ELSE [account |-> acct, buy_heap |-> bh, suggestion_heap |-> sh]

\* account["holdings"][ticker] = {...} of execute_buy_orders
BoughtHolding(quantity, current_price) ==
    [quantity |-> quantity, price |-> current_price,
     stop_loss |-> current_price * (PerMille - train_stop_loss),
     take_profit |-> current_price * (PerMille + train_take_profit)]

\* a heap name that keeps its list
new_heap_kept(h) == h

\* buy_heap = [] and suggestion_heap = []: the name is bound to a new list
new_heap(h) == {}

\* test(): a weekend or a holiday is stepped over
test_skip_day ==
    /\ phase = "test" /\ run_status = "running"
    /\ cal.pc = "loop" /\ cal.date < MaxDays + 1
    /\ cal' = [cal EXCEPT !.date = @ + 1]
    /\ UNCHANGED <<ledger_vars, rank_vars, fuse_vars, thread_vars, account, buy_heap,
                   suggestion_heap, orders>>

\* test(): a trading day starts: the coefficients are looked up by rank
\* (KeyError when the table has no such rank) and both heaps are created
test_day_begins ==
    /\ phase = "test" /\ run_status = "running"
    /\ cal.pc = "loop" /\ cal.days < MaxDays
    /\ IF \A n \in Strategies : rank_dict[n] \in DOMAIN cal.rank_to_coefficient
       THEN /\ \E price \in TestPriceMaps, signals \in TestSignalMaps :
                 cal' = [cal EXCEPT
                    !.pc = "tickers", !.in_day = TRUE, !.days = @ + 1,
                    !.price = price, !.signals = signals,
                    !.todo = TestTickers,
                    !.dropped = Cardinality(buy_heap) + Cardinality(suggestion_heap),
                    !.td_prev_day = cal.td_day, !.td_day = time_delta,
                    !.strategy_to_coefficient =
                        [n \in Strategies |->
                            cal.rank_to_coefficient[rank_dict[n]]]]
            /\ buy_heap' = new_heap(buy_heap)
            /\ suggestion_heap' = new_heap(suggestion_heap)
            /\ orders' = <<>>
            /\ UNCHANGED run_status
       ELSE /\ run_status' = "failed"
            /\ UNCHANGED <<cal, buy_heap, suggestion_heap, orders>>
    /\ UNCHANGED <<trading_simulator, points, time_delta, algorithm_holdings,
                   points_tally, td_doc, phase, last, rank_vars, fuse_vars, thread_vars,
                   account>>

\* test(): one turn of `for ticker in tickers`
test_ticker ==
    /\ phase = "test" /\ run_status = "running"
    /\ cal.pc = "tickers" /\ cal.todo # <<>>
    /\ LET ticker == Head(cal.todo)
           current_price == cal.price[ticker]
           r == test_ticker_body(account, buy_heap, suggestion_heap, ticker,
                                 current_price, cal.signals[ticker],
                                 cal.strategy_to_coefficient, cal.days)
       IN  IF current_price = 0
           THEN UNCHANGED <<account, buy_heap, suggestion_heap>>
           ELSE /\ account' = r.account
                /\ buy_heap' = r.buy_heap
                /\ suggestion_heap' = r.suggestion_heap
    /\ cal' = [cal EXCEPT !.todo = Tail(@)]
    /\ UNCHANGED <<ledger_vars, rank_vars, fuse_vars, thread_vars, orders>>

\* the `while` condition of execute_buy_orders
DrainGoesOn ==
    /\ buy_heap # {} \/ suggestion_heap # {}
    /\ account.cash > train_trade_liquidity_limit

\* execute_buy_orders: one turn of the loop
execute_buy_orders_pop ==
    /\ phase = "test" /\ run_status = "running"
    /\ cal.pc = "tickers" /\ cal.todo = <<>>
    /\ DrainGoesOn
    /\ LET from_buy == buy_heap # {}
           m == IF from_buy THEN OrderMin(buy_heap)
                ELSE OrderMin(suggestion_heap)
           current_price == cal.price[m[3]]
       IN  /\ buy_heap' = IF from_buy THEN buy_heap \ {m} ELSE buy_heap
           /\ suggestion_heap' = IF from_buy THEN suggestion_heap
                                 ELSE suggestion_heap \ {m}
           /\ account' =
                IF current_price = 0 THEN account
                ELSE [account EXCEPT
                        !.trades = Append(@, [symbol |-> m[3],
                                       quantity |-> m[2],
                                       price |-> current_price,
                                       action |-> "buy"]),
                        !.cash = @ - m[2] * current_price,
                        !.holdings = SetHolding(@, m[3],
                                        BoughtHolding(m[2], current_price))]
           /\ orders' = Append(orders, <<IF from_buy THEN "buy_heap"
                                         ELSE "suggestion_heap", m>>)
    /\ UNCHANGED <<ledger_vars, rank_vars, fuse_vars, thread_vars, cal>>

\* one turn of the strategy loop of simulate_trading_day, as a function
simulate_trading_day_turn(st, td, s, t, current_price, num_action) ==
    LET action == IF num_action = 1 THEN "Buy"
                  ELSE IF num_action = -1 THEN "Sell" ELSE "Hold"
        account_cash == st.sim[s].amount_cash
        portfolio_qty == HeldQty(st.sim[s].holdings, t)
        total_portfolio_value == st.sim[s].portfolio_value
        dq == compute_trade_quantities(action, current_price, account_cash,
                                       portfolio_qty, total_portfolio_value)
    IN  execute_trade(dq.decision, dq.qty, t, current_price, s, st.sim,
                      st.points, td, portfolio_qty, total_portfolio_value)

\* simulate_trading_day from turn k on: tickers outside, strategies inside;
\* a ticker without a price on the date is stepped over; a raise ends it
RECURSIVE simulate_trading_day_from(_, _, _, _, _, _)
simulate_trading_day_from(k, tickers, st, td, price, signals) ==
    IF k > Len(tickers) * Len(StrategyList) \/ st.raised THEN st
    ELSE LET t == tickers[((k - 1) \div Len(StrategyList)) + 1]
             i == ((k - 1) % Len(StrategyList)) + 1
         IN  simulate_trading_day_from(k + 1, tickers,
                 IF price[t] = 0 THEN st
                 ELSE simulate_trading_day_turn(st, td, StrategyList[i], t,
                                                price[t], signals[t][i]),
                 td, price, signals)

\* execute_buy_orders returns; the rest of the day: the strategies' ledgers
\* are traded, the portfolio values, time_delta, the value of the account
\* and the ranks are updated; the date moves on
test_day_ends ==
    /\ phase = "test" /\ run_status = "running"
    /\ cal.pc = "tickers" /\ cal.todo = <<>>
    /\ ~DrainGoesOn
    /\ LET st == simulate_trading_day_from(1, TestTickers,
                    [sim |-> trading_simulator, points |-> points,
                     raised |-> FALSE],
                    time_delta, cal.price, cal.signals)
           valued == local_update_portfolio_values(st.sim, cal.price)
       IN  IF st.raised
           THEN /\ trading_simulator' = st.sim
                /\ points' = st.points
                /\ run_status' = "failed"
                /\ UNCHANGED <<rank_dict, time_delta, account, cal>>
           ELSE /\ trading_simulator' = valued
                /\ points' = st.points
                /\ rank_dict' = update_strategy_ranks(Strategies, st.points, valued)
                /\ time_delta' = update_time_delta(time_delta, train_time_delta_mode)
                /\ account' = [account EXCEPT !.total_portfolio_value =
                      account.cash
                        + SumOver({t \in DOMAIN account.holdings :
                                     cal.price[t] # 0},
                                  account.holdings, cal.price)]
                /\ cal' = [cal EXCEPT !.pc = "loop", !.in_day = FALSE,
                                      !.date = @ + 1]
                /\ UNCHANGED run_status
    /\ UNCHANGED <<algorithm_holdings, points_tally, td_doc, phase, last,
                   rank_coll, heap, rank, ur_pc, runs, prev_rank,
                   HistoricalDatabase, reader, fuse_vars, thread_vars, buy_heap,
                   suggestion_heap, orders>>

\* an account some days into the test period
LateAccount ==
    [holdings |-> ("GOOG" :> BoughtHolding(50, 100)),
     cash |-> 17000,
     trades |-> <<[symbol |-> "GOOG", quantity |-> 50, price |-> 100,
                   action |-> "buy"]>>,
     total_portfolio_value |-> 22000]

InitTest ==
    /\ FuseIdle
    /\ ThreadIdle
    /\ rank_coll = <<>> /\ heap = {} /\ rank = 1 /\ ur_pc = "idle"
    /\ runs = 0 /\ prev_rank = <<>> /\ HistoricalDatabase = {"AAPL"}
    /\ reader = NoReader
    /\ trading_simulator = [s \in Strategies |-> NewLedger]
    /\ points = [s \in Strategies |-> 0]
    /\ rank_dict = update_strategy_ranks(Strategies, points, trading_simulator)
    /\ run_status = "running"
    /\ algorithm_holdings = [s \in Strategies |-> NewLedger]
    /\ points_tally = [s \in Strategies |-> 0]
    /\ phase = "test"
    /\ time_delta = 125 /\ td_doc = 125
    /\ last = NoCall
    /\ \E table \in CoefficientTables :
         cal = [NoCal EXCEPT !.rank_to_coefficient = table]
    /\ account \in {initialize_test_account, LateAccount}
    /\ buy_heap = {}
    /\ suggestion_heap = {}
    /\ orders = <<>>

NextTest ==
    \/ test_skip_day
    \/ test_day_begins
    \/ test_ticker
    \/ execute_buy_orders_pop
    \/ test_day_ends

SpecTest == InitTest /\ [][NextTest]_vars

\* the ticker the loop is at is held and its price has left the band
StopOrTake ==
    /\ phase = "test" /\ cal.pc = "tickers" /\ cal.todo # <<>>
    /\ LET t == Head(cal.todo)
       IN  /\ cal.price[t] # 0
           /\ t \in DOMAIN account.holdings
           /\ \/ cal.price[t] * PerMille < account.holdings[t].stop_loss
              \/ cal.price[t] * PerMille > account.holdings[t].take_profit

\* C13: when the loop of a day comes to a held ticker whose price is below
\* its stop-loss or above its take-profit, the turn for that ticker, whatever
\* the strategies signal, leaves the ticker out of the holdings, adds
\* quantity x price to the cash and records exactly one sale, of the whole
\* position at the current price: the check has run before the votes were
\* sized, so the fused decision finds no position to sell.
C13_StopLossTakeProfitFirst ==
    [][(StopOrTake /\ cal'.todo # cal.todo)
        => LET t == Head(cal.todo)
               q == account.holdings[t].quantity
           IN  /\ t \notin DOMAIN account'.holdings
               /\ account'.cash = account.cash + q * cal.price[t]
               /\ account'.trades = Append(account.trades,
                      [symbol |-> t, quantity |-> q, price |-> cal.price[t],
                       action |-> "sell"])]_vars

\* a position entered at 100 has just been sold by the check at 96 or 106,
\* on the second day
C13_Witness ==
    /\ phase = "test" /\ cal.pc = "tickers" /\ cal.days = 2
    /\ Len(cal.todo) = 1
    /\ "AAPL" \notin DOMAIN account.holdings
    /\ Len(account.trades) >= 2
    /\ LET n == Len(account.trades)
       IN  /\ account.trades[n].symbol = "AAPL"
           /\ account.trades[n].action = "sell"
           /\ account.trades[n].price \in {96, 106}
           /\ \E i \in 1..(n - 1) :
                 /\ account.trades[i].symbol = "AAPL"
                 /\ account.trades[i].action = "buy"
                 /\ account.trades[i].price = 100
                 /\ \A j \in (i + 1)..(n - 1) : account.trades[j].symbol # "AAPL"

----------------------------------------------------------------------------
(* TradeSim/trading.py: the trading client and the broker account           *)

trade_liquidity_limit == 15000
suggestion_heap_limit == 600000
stop_loss == 30
take_profit == 50

\* what the strategies return for one ticker: (decision, quantity) of
\* BBANDS, MACD and RSI
TradeVotes == {<<<<"buy", 20>>, <<"buy", 20>>, <<"buy", 20>>>>, <<<<"hold", 0>>, <<"buy", 20>>, <<"buy", 20>>>>, <<<<"sell", 10>>, <<"sell", 10>>, <<"sell", 10>>>>, <<<<"hold", 0>>, <<"buy", 20>>, <<"hold", 0>>>>}
TradePriceMaps == {PriceMap(100, 100), PriceMap(96, 100), PriceMap(106, 100)}

\* trading_simulator.rank as the trading client finds it: complete, or
\* with a strategy missing
RankTables == {<<[strategy |-> "BBANDS_indicator", rank |-> 1], [strategy |-> "MACD_indicator", rank |-> 2], [strategy |-> "RSI_indicator", rank |-> 3]>>, <<[strategy |-> "BBANDS_indicator", rank |-> 1], [strategy |-> "MACD_indicator", rank |-> 2]>>}

\* the broker's view of the account: cash, positions (trades.assets_quantities
\* mirrors them) and trades.assets_limit
BrokerAccounts ==
    {[cash |-> 50000, holdings |-> <<>>, limits |-> <<>>,
      total_portfolio_value |-> 50000],
     [cash |-> 17000, holdings |-> ("GOOG" :> [quantity |-> 330]),
      limits |-> ("GOOG" :> [stop_loss_price |-> 97000,
                             take_profit_price |-> 105000]),
      total_portfolio_value |-> 50000],
     [cash |-> 47000, holdings |-> ("AAPL" :> [quantity |-> 30]),
      limits |-> ("AAPL" :> [stop_loss_price |-> 97000,
                             take_profit_price |-> 105000]),
      total_portfolio_value |-> 50000]}

\* place_order: the market order is filled at the current price; the limits
\* are kept in thousandths of a dollar
place_order(acct, symbol, side, quantity, current_price) ==
    IF side = "BUY"
    THEN [acct EXCEPT
            !.cash = @ - quantity * current_price,
            !.holdings = SetHolding(@, symbol,
                [quantity |-> HeldQty(acct.holdings, symbol) + quantity]),
            !.limits = SetHolding(@, symbol,
                [stop_loss_price |-> current_price * (PerMille - stop_loss),
                 take_profit_price |-> current_price * (PerMille + take_profit)])]
    ELSE LET left == HeldQty(acct.holdings, symbol) - quantity
         IN  [acct EXCEPT
                !.cash = @ + quantity * current_price,
                !.holdings = IF left = 0 THEN DelHolding(@, symbol)
                             ELSE SetHolding(@, symbol, [quantity |-> left]),
                !.limits = IF left = 0 THEN DelHolding(@, symbol) ELSE @]

\* the rank and the coefficient of every strategy can be found
CoefficientsFound ==
    \A n \in Strategies :
        /\ find_one_rank(rank_coll, n) # 0
        /\ find_one_rank(rank_coll, n) \in DOMAIN cal.rank_to_coefficient

\* process_market_open is entered: the coefficients are loaded, the heaps
\* and the sold flag are reset.  A missing rank or coefficient raises in
\* initialize_strategy_coefficients; main() logs it and starts over.
trade_market_open ==
    /\ phase = "trade" /\ cal.pc = "loop" /\ cal.days < MaxDays
    /\ IF CoefficientsFound
       THEN /\ \E price \in TradePriceMaps :
                 cal' = [cal EXCEPT
                    !.pc = "tickers", !.days = @ + 1, !.price = price,
                    !.todo = TestTickers, !.sold = FALSE,
                    !.strategy_to_coefficient =
                        [n \in Strategies |->
                            cal.rank_to_coefficient[find_one_rank(rank_coll, n)]]]
            /\ buy_heap' = new_heap(buy_heap)
            /\ suggestion_heap' = new_heap(suggestion_heap)
            /\ orders' = <<>>
       ELSE /\ cal' = [cal EXCEPT !.days = @ + 1]
            /\ UNCHANGED <<buy_heap, suggestion_heap, orders>>
    /\ UNCHANGED <<ledger_vars, rank_vars, fuse_vars, thread_vars, account>>

\* process_ticker (trading.py) for the next ticker
trade_process_ticker(dqs) ==
    /\ phase = "trade" /\ cal.pc = "tickers" /\ cal.todo # <<>>
    /\ LET ticker == Head(cal.todo)
           current_price == cal.price[ticker]
           portfolio_qty == HeldQty(account.holdings, ticker)
           limited == /\ ticker \in DOMAIN account.limits
                      /\ \/ current_price * PerMille <= account.limits[ticker].stop_loss_price
                         \/ current_price * PerMille >= account.limits[ticker].take_profit_price
           f == weighted_majority_decision_and_median_quantity(
                    [i \in 1..Len(StrategyList) |->
                        <<dqs[i][1], dqs[i][2],
                          cal.strategy_to_coefficient[StrategyList[i]]>>])
           quantity == f.quantity.n \div f.quantity.d
       IN  IF limited
           THEN /\ account' = place_order(account, ticker, "SELL", portfolio_qty, current_price)
                /\ cal' = [cal EXCEPT !.todo = Tail(@), !.sold = TRUE]
                /\ UNCHANGED <<buy_heap, suggestion_heap>>
           ELSE IF /\ f.decision = "buy"
                   /\ account.cash > trade_liquidity_limit
                   /\ (quantity + portfolio_qty) * current_price * PerMille
                        < trade_asset_limit * account.total_portfolio_value
           THEN /\ buy_heap' = buy_heap \cup
                     {<<-(2 * f.buy_weight - (2 * f.sell_weight + f.hold_weight)),
                        quantity, ticker, cal.days>>}
                /\ cal' = [cal EXCEPT !.todo = Tail(@)]
                /\ UNCHANGED <<account, suggestion_heap>>
           ELSE IF f.decision = "sell" /\ portfolio_qty > 0
           THEN /\ account' = place_order(account, ticker, "SELL", Max(quantity, 1), current_price)
                /\ cal' = [cal EXCEPT !.todo = Tail(@), !.sold = TRUE]
                /\ UNCHANGED <<buy_heap, suggestion_heap>>
           ELSE IF /\ portfolio_qty = 0
                   /\ f.buy_weight > f.sell_weight
                   /\ (quantity + portfolio_qty) * current_price * PerMille
                        < trade_asset_limit * account.total_portfolio_value
                   /\ account.cash > trade_liquidity_limit
                   /\ f.buy_weight > suggestion_heap_limit
           THEN LET max_investment == (account.total_portfolio_value
                                         * trade_asset_limit) \div PerMille
                    buy_quantity == Min(max_investment \div current_price,
                                        account.cash \div current_price)
                IN  /\ suggestion_heap' = suggestion_heap \cup
                         {<<-(f.buy_weight - f.sell_weight),
                            Max(buy_quantity, 2) \div 2, ticker, cal.days>>}
                    /\ cal' = [cal EXCEPT !.todo = Tail(@)]
                    /\ UNCHANGED <<account, buy_heap>>
           ELSE /\ cal' = [cal EXCEPT !.todo = Tail(@)]
                /\ UNCHANGED <<account, buy_heap, suggestion_heap>>
    /\ UNCHANGED <<ledger_vars, rank_vars, fuse_vars, thread_vars, orders>>

\* execute_buy_orders is entered: account = trading_client.get_account()
trade_get_account ==
    /\ phase = "trade" /\ cal.pc = "tickers" /\ cal.todo = <<>>
    /\ cal' = [cal EXCEPT !.pc = "drain", !.account_cash = account.cash]
    /\ UNCHANGED <<ledger_vars, rank_vars, fuse_vars, thread_vars, account, buy_heap,
                   suggestion_heap, orders>>

\* the `while` condition of execute_buy_orders (trading.py): the cash is
\* the one get_account returned before the loop
TradeDrainGoesOn ==
    /\ buy_heap # {} \/ suggestion_heap # {}
    /\ cal.account_cash > trade_liquidity_limit
    /\ ~cal.sold

\* execute_buy_orders (trading.py): one turn of the loop; the order is
\* filled, or place_order raises and the loop is left
trade_buy_orders_pop(filled) ==
    /\ phase = "trade" /\ cal.pc = "drain"
    /\ TradeDrainGoesOn
    /\ LET from_buy == buy_heap # {}
           m == IF from_buy THEN OrderMin(buy_heap)
                ELSE OrderMin(suggestion_heap)
       IN  /\ buy_heap' = IF from_buy THEN buy_heap \ {m} ELSE buy_heap
           /\ suggestion_heap' = IF from_buy THEN suggestion_heap
                                 ELSE suggestion_heap \ {m}
           /\ account' = IF filled
                         THEN place_order(account, m[3], "BUY", m[2], cal.price[m[3]])
                         ELSE account
           /\ orders' = Append(orders, <<IF from_buy THEN "buy_heap"
                                         ELSE "suggestion_heap", m>>)
    /\ cal' = IF filled THEN cal ELSE [cal EXCEPT !.pc = "broken"]
    /\ UNCHANGED <<ledger_vars, rank_vars, fuse_vars, thread_vars>>

\* execute_buy_orders (trading.py) after the loop: both heaps are emptied,
\* the sold flag is reset, process_market_open returns
trade_buy_orders_end ==
    /\ phase = "trade"
    /\ \/ cal.pc = "drain" /\ ~TradeDrainGoesOn
       \/ cal.pc = "broken"
    /\ buy_heap' = new_heap(buy_heap)
    /\ suggestion_heap' = new_heap(suggestion_heap)
    /\ cal' = [cal EXCEPT !.pc = "loop", !.sold = FALSE]
    /\ UNCHANGED <<ledger_vars, rank_vars, fuse_vars, thread_vars, account, orders>>

InitTrade ==
    /\ FuseIdle
    /\ ThreadIdle
    /\ \E table \in RankTables : rank_coll = table
    /\ heap = {} /\ rank = 1 /\ ur_pc = "idle"
    /\ runs = 0 /\ prev_rank = <<>> /\ HistoricalDatabase = {"AAPL"}
    /\ reader = NoReader /\ rank_dict = <<>>
    /\ trading_simulator = [s \in Strategies |-> NewLedger]
    /\ points = [s \in Strategies |-> 0]
    /\ run_status = "running"
    /\ algorithm_holdings = [s \in Strategies |-> NewLedger]
    /\ points_tally = [s \in Strategies |-> 0]
    /\ phase = "trade"
    /\ time_delta = 1 /\ td_doc = 1
    /\ last = NoCall
    /\ \E table \in CoefficientTables :
         cal = [NoCal EXCEPT !.rank_to_coefficient = table]
    /\ account \in BrokerAccounts
    /\ buy_heap = {}
    /\ suggestion_heap = {}
    /\ orders = <<>>

NextTrade ==
    \/ trade_market_open
    \/ \E dqs \in TradeVotes : trade_process_ticker(dqs)
    \/ trade_get_account
    \/ \E filled \in BOOLEAN : trade_buy_orders_pop(filled)
    \/ trade_buy_orders_end

SpecTrade == InitTrade /\ [][NextTrade]_vars

\* the reserve of the client that is running
LiquidityReserve ==
    IF phase = "test" THEN train_trade_liquidity_limit ELSE trade_liquidity_limit

\* C14 (as claimed): whenever the scheduler pops a candidate, the account's
\* cash exceeds the liquidity reserve, and a candidate is popped from the
\* suggestion heap only when the buy heap is empty.
C14_PopOnlyAboveReserve ==
    [][Len(orders') = Len(orders) + 1
        => /\ account.cash > LiquidityReserve
           /\ orders'[Len(orders')][1] = "suggestion_heap" => buy_heap = {}]_vars

\* the scheduler has just popped an item
Popped == Len(orders') = Len(orders) + 1

\* C15: every item the scheduler of test() pops has a key no larger than
\* the key of any item still queued in the heap it was popped from, so of
\* two candidates queued in one heap on a day the one with the smaller key
\* is executed first.
C15_AscendingKeys ==
    [][(phase = "test" /\ Popped)
        => LET o == orders'[Len(orders')]
               left == IF o[1] = "buy_heap" THEN buy_heap' ELSE suggestion_heap'
           IN  \A x \in left : o[2][1] <= x[1]]_vars

\* two buys were popped from the buy heap on one day, the first with the
\* smaller key although its ticker was queued last
C15_Witness ==
    /\ phase = "test" /\ Len(orders) = 2
    /\ orders[1][1] = "buy_heap" /\ orders[2][1] = "buy_heap"
    /\ orders[1][2][1] < orders[2][2][1]
    /\ orders[1][2][3] = "MSFT" /\ orders[2][2][3] = "AAPL"
    /\ Len(account.trades) >= 2
    /\ account.trades[Len(account.trades)].symbol = "AAPL"
    /\ account.trades[Len(account.trades) - 1].symbol = "MSFT"

----------------------------------------------------------------------------
(* Buys on a held ticker *)

\* (q0 * p0 + q * p) / (q0 + q), p0 an exact quotient
WeightedAverage(q0, p0, q, p) == Rat(q0 * p0.n + q * p * p0.d, p0.d * (q0 + q))

BuyAsClaimed(before, after, t, q, p) ==
    LET q0 == before.holdings[t].quantity
        p0 == before.holdings[t].price
    IN  after.total_trades # before.total_trades
          => /\ after.holdings[t].quantity = q0 + q
             /\ after.holdings[t].price = WeightedAverage(q0, p0, q, p)
             /\ after.amount_cash = before.amount_cash - q * p
             /\ after.total_trades = before.total_trades + 1

\* C17 (as claimed): in every reachable ledger state of either client, an
\* accepted buy of q shares at price p of a ticker held with q0 shares at entry
\* price p0 leaves quantity q0 + q at the quantity-weighted average entry
\* price, takes q x p from the cash and adds exactly 1 to total_trades.
C17_BuyAveragesEntryPrice ==
    \A s \in Strategies, t \in Tickers, q \in Qtys \cup LiveQtys :
      \A p \in PricesOf(t) :
        /\ t \in DOMAIN trading_simulator[s].holdings
             => BuyAsClaimed(trading_simulator[s],
                             TrainResult(s, t, "buy", q, p).sim[s], t, q, p)
        /\ t \in DOMAIN algorithm_holdings[s].holdings
             => BuyAsClaimed(algorithm_holdings[s],
                             LiveResult(s, t, "buy", q, p).doc, t, q, p)

----------------------------------------------------------------------------
(* Tickers without a price *)

\* the tickers of the list that have a price
Priced(tickers, price) == SelectSeq(tickers, LAMBDA t : price[t] # 0)

\* C18 (as claimed): no strategy is evaluated for a ticker whose price could
\* not be obtained: simulate_trade is never called without a price, and
\* simulate_trading_day run with a price missing leaves every ledger as the
\* run over the priced tickers alone leaves it.
C18_NoPriceSkipsTicker ==
    /\ ~(last.op = "simulate_trade" /\ last.outcome = "no_price")
    /\ \A price \in TestPriceMaps, signals \in TestSignalMaps :
         LET st == [sim |-> trading_simulator, points |-> points, raised |-> FALSE]
         IN  simulate_trading_day_from(1, TestTickers, st, time_delta, price, signals)
               = simulate_trading_day_from(1, Priced(TestTickers, price), st, time_delta, price, signals)

----------------------------------------------------------------------------
(* A strategy without a rank or a coefficient *)

\* some strategy's rank has no entry in the coefficient table
CoefficientMissing ==
    \E n \in Strategies : rank_dict[n] \notin DOMAIN cal.rank_to_coefficient

\* C19 (as claimed): a strategy whose rank has no coefficient when the votes
\* are to be fused does not fail the run: only its vote is left out.
C19_MissingCoefficientNotFatal ==
    (phase = "test" /\ CoefficientMissing) => run_status # "failed"

----------------------------------------------------------------------------
(* A ledger without a points tally *)

\* the ranked strategies that have no points_tally document
Untallied == Ranked \ DOMAIN points_tally

\* C20 (as claimed): a strategy without a points tally is scored with 0
\* points, that is by its portfolio value alone, it still gets a rank, and
\* the run of the rank engine completes for all strategies.
C20_UntalliedScoresZero ==
    /\ ur_pc # "crashed"
    /\ RanRun =>
         \A n \in Untallied :
            /\ find_one_rank(rank_coll, n) \in 1..Cardinality(Ranked)
            /\ SpecScore(n) = 1000 * algorithm_holdings[n].portfolio_value
            /\ \A m \in Ranked :
                  SpecBefore(n, m) => find_one_rank(rank_coll, n) < find_one_rank(rank_coll, m)

----------------------------------------------------------------------------
(* setup.py: the coefficient schedule                                      *)

\* the largest number of strategies setup is run for
MaxRanks == 8

\* coefficients and the rate are kept in ten-thousandths
CoefficientScale == 10000

\* rate = (e**e) / (e**2) - 1 = 1.0509...
rate == 10509

\* base ** k, in ten-thousandths
RECURSIVE FloatPow(_, _)
FloatPow(base, k) ==
    IF k = 0 THEN CoefficientScale
    ELSE (FloatPow(base, k - 1) * base) \div CoefficientScale

\* an exponent that loses the odd ranks: rate ** (2 * (i // 2))
coefficient_halved(i) == FloatPow(rate, 2 * (i \div 2))

\* coefficient = rate ** (2 * i)
coefficient(i) == FloatPow(rate, 2 * i)

\* collections.update_one({"rank": i}, {"$set": ...}, upsert=True) on the
\* table kept as the sequence of its coefficients by rank
upsert_coefficient(table, i, c) ==
    IF i \in DOMAIN table THEN [table EXCEPT ![i] = c] ELSE Append(table, c)

\* insert_rank_to_coefficient(n) is called
insert_rank_to_coefficient_call(n) ==
    /\ phase = "setup" /\ cal.pc = "loop"
    /\ cal' = [cal EXCEPT !.pc = "upserting", !.todo = [k \in 1..n |-> k]]
    /\ UNCHANGED <<ledger_vars, rank_vars, fuse_vars, thread_vars, account, buy_heap,
                   suggestion_heap, orders>>

\* one turn of `for i in range(1, i + 1)`
insert_rank_to_coefficient_turn ==
    /\ phase = "setup" /\ cal.pc = "upserting" /\ cal.todo # <<>>
    /\ LET i == Head(cal.todo)
       IN  cal' = [cal EXCEPT
              !.rank_to_coefficient = upsert_coefficient(@, i, coefficient(i)),
              !.todo = Tail(@)]
    /\ UNCHANGED <<ledger_vars, rank_vars, fuse_vars, thread_vars, account, buy_heap,
                   suggestion_heap, orders>>

\* the loop is over, or the database raised and the except printed it
insert_rank_to_coefficient_returns ==
    /\ phase = "setup" /\ cal.pc = "upserting"
    /\ cal' = [cal EXCEPT !.pc = "loop", !.todo = <<>>,
                          !.days = IF cal.todo = <<>> THEN 1 ELSE cal.days]
    /\ UNCHANGED <<ledger_vars, rank_vars, fuse_vars, thread_vars, account, buy_heap,
                   suggestion_heap, orders>>

InitSetup ==
    /\ RankIdle
    /\ FuseIdle
    /\ ThreadIdle
    /\ DayIdle
    /\ trading_simulator = [s \in Strategies |-> NewLedger]
    /\ points = [s \in Strategies |-> 0]
    /\ run_status = "running"
    /\ algorithm_holdings = [s \in Strategies |-> NewLedger]
    /\ points_tally = [s \in Strategies |-> 0]
    /\ phase = "setup"
    /\ time_delta = 1 /\ td_doc = 1
    /\ last = NoCall

NextSetup ==
    \/ \E n \in 1..MaxRanks : insert_rank_to_coefficient_call(n)
    \/ insert_rank_to_coefficient_turn
    \/ insert_rank_to_coefficient_returns

SpecSetup == InitSetup /\ [][NextSetup]_vars

\* C21: the coefficient schedule is strictly increasing in rank: every row
\* of the table holds rate ** (2 * rank), and of two consecutive ranks the
\* higher has the strictly larger coefficient; rate is above 1.
C21_CoefficientsIncrease ==
    /\ rate > CoefficientScale
    /\ \A i \in DOMAIN cal.rank_to_coefficient :
          /\ cal.rank_to_coefficient[i] = FloatPow(rate, 2 * i)
          /\ (i + 1) \in DOMAIN cal.rank_to_coefficient =>
                cal.rank_to_coefficient[i + 1] > cal.rank_to_coefficient[i]

\* a call for the largest table has completed
C21_Witness ==
    /\ phase = "setup" /\ cal.pc = "loop" /\ cal.days = 1
    /\ Len(cal.rank_to_coefficient) = MaxRanks

----------------------------------------------------------------------------
(* ranking_client.py, market open: one thread per ticker                   *)

ThreadTickers == {"AAPL", "MSFT"}
ThreadQtys == {20, 40}
ThreadPrices == {100, 110}

NoThread == [pc |-> "start", doc |-> NewLedger, action |-> "hold",
             quantity |-> 0, price |-> 0, traded |-> FALSE, held |-> 0,
             cash |-> 0]

\* the threads of the cycle that have left process_ticker
Joined == \A t \in ThreadTickers : threads[t].pc = "done"

\* main(): `for ticker in ndaq_tickers: thread.start()`
start_threads ==
    /\ phase = "threads" /\ cal.pc = "loop" /\ cal.days < MaxDays
    /\ threads' = [t \in ThreadTickers |-> NoThread]
    /\ cal' = [cal EXCEPT !.pc = "threads", !.days = @ + 1,
                          !.account_cash = algorithm_holdings["RSI_indicator"].amount_cash]
    /\ UNCHANGED <<ledger_vars, rank_vars, fuse_vars, account, buy_heap,
                   suggestion_heap, orders, retry>>

\* thread of ticker t, strategy s: simulate_strategy has decided and
\* simulate_trade reads the strategy document (find_one)
thread_find_one(t, s, action, quantity, current_price) ==
    /\ phase = "threads" /\ cal.pc = "threads"
    /\ threads[t].pc = "start"
    /\ threads' = [threads EXCEPT ![t] =
          [@ EXCEPT !.pc = "read", !.doc = algorithm_holdings[s],
                    !.action = action, !.quantity = quantity,
                    !.price = current_price]]
    /\ UNCHANGED <<ledger_vars, rank_vars, fuse_vars, day_vars, retry>>

\* the update_one calls of a simulate_trade that trades: holdings and
\* amount_cash are $set to what was computed from the document read, the
\* counters and the points are $inc'ed
update_one_set_inc(db_doc, read_doc, new_doc) ==
    [db_doc EXCEPT
        !.holdings = new_doc.holdings,
        !.amount_cash = new_doc.amount_cash,
        !.total_trades = @ + (new_doc.total_trades - read_doc.total_trades),
        !.successful_trades = @ + (new_doc.successful_trades - read_doc.successful_trades),
        !.neutral_trades = @ + (new_doc.neutral_trades - read_doc.neutral_trades),
        !.failed_trades = @ + (new_doc.failed_trades - read_doc.failed_trades)]

\* thread of ticker t, strategy s: the rest of simulate_trade
thread_update_one(t, s) ==
    /\ phase = "threads" /\ cal.pc = "threads"
    /\ threads[t].pc = "read"
    /\ LET th == threads[t]
           r == simulate_trade(t, s, th.action, th.quantity, th.price,
                               th.doc, points_tally, td_doc)
           traded == r.doc # th.doc
       IN  /\ algorithm_holdings' =
                 IF traded
                 THEN [algorithm_holdings EXCEPT
                         ![s] = update_one_set_inc(@, th.doc, r.doc)]
                 ELSE algorithm_holdings
           /\ points_tally' = r.tally
           /\ threads' = [threads EXCEPT ![t] =
                 [@ EXCEPT !.pc = "done", !.traded = traded,
                           !.held = HeldQty(r.doc.holdings, t),
                           !.cash = r.doc.amount_cash - th.doc.amount_cash]]
    /\ UNCHANGED <<trading_simulator, points, time_delta, run_status, td_doc,
                   phase, last, rank_vars, fuse_vars, day_vars, retry>>

\* main(): every thread is joined
join_threads ==
    /\ phase = "threads" /\ cal.pc = "threads"
    /\ Joined
    /\ cal' = [cal EXCEPT !.pc = "loop"]
    /\ UNCHANGED <<ledger_vars, rank_vars, fuse_vars, account, buy_heap,
                   suggestion_heap, orders, thread_vars>>

InitThreads ==
    /\ RankIdle
    /\ FuseIdle
    /\ DayIdle
    /\ threads = [t \in ThreadTickers |-> [NoThread EXCEPT !.pc = "done"]]
    /\ retry = NoRetry
    /\ trading_simulator = [s \in Strategies |-> NewLedger]
    /\ points = [s \in Strategies |-> 0]
    /\ run_status = "running"
    /\ algorithm_holdings = [s \in Strategies |-> NewLedger]
    /\ points_tally = [s \in Strategies |-> 0]
    /\ phase = "threads"
    /\ time_delta = 1 /\ td_doc = 1
    /\ last = NoCall

NextThreads ==
    \/ start_threads
    \/ \E t \in ThreadTickers, s \in Traders, action \in Decisions, quantity \in ThreadQtys, p \in ThreadPrices : thread_find_one(t, s, action, quantity, p)
    \/ \E t \in ThreadTickers, s \in Traders : thread_update_one(t, s)
    \/ join_threads

SpecThreads == InitThreads /\ [][NextThreads]_vars

\* cash the threads of the cycle have spent (negative) or received
RECURSIVE CashMoved(_)
CashMoved(S) ==
    IF S = {} THEN 0
    ELSE LET t == CHOOSE x \in S : TRUE
         IN  (IF threads[t].traded THEN threads[t].cash ELSE 0) + CashMoved(S \ {t})

\* C22 (as claimed): the trades of one cycle against the same strategy's
\* ledger are serialized, no update is lost: when the threads have finished,
\* the ledger holds of every ticker what the trade of that ticker's thread
\* left, and its cash is the cash at the start of the cycle plus what the
\* trades of the cycle moved.
C22_TradesSerialized ==
    (phase = "threads" /\ cal.days >= 1 /\ Joined) =>
        /\ \A t \in ThreadTickers :
              threads[t].traded =>
                 HeldQty(algorithm_holdings["RSI_indicator"].holdings, t) = threads[t].held
        /\ algorithm_holdings["RSI_indicator"].amount_cash
              = cal.account_cash + CashMoved(ThreadTickers)

----------------------------------------------------------------------------
(* The sold flag *)

\* C23 (as claimed): once a sell has set the sold flag in a cycle, no buy
\* candidate is pushed onto either heap and no buy order is executed until
\* the flag is reset.
C23_SoldStopsBuyScheduling ==
    [][cal.sold =>
          /\ buy_heap' \subseteq buy_heap
          /\ suggestion_heap' \subseteq suggestion_heap
          /\ Len(orders') <= Len(orders)]_vars

\* C24 (as claimed): every pop of the drain after a broker order is decided
\* against the cash the broker reports after that order, not against the
\* cash read before the drain started.
C24_CashReadAfterEachOrder ==
    [][(phase = "trade" /\ Len(orders') = Len(orders) + 1)
          => cal.account_cash = account.cash]_vars

----------------------------------------------------------------------------
(* The cash reserve of the test account *)

\* C25 (as claimed): after a buy executed by execute_buy_orders the cash of
\* the account is still at or above the liquidity limit, and never negative.
C25_ReserveKeptAfterBuy ==
    (phase = "test" /\ orders # <<>>) =>
        /\ account.cash >= train_trade_liquidity_limit
        /\ account.cash >= 0

----------------------------------------------------------------------------
(* What a pop of the order scheduler does to the test account *)

\* C26 (as claimed): a pop of execute_buy_orders for a ticker that has a
\* price takes quantity * price from the cash and opens or extends the
\* holding: its quantity is the quantity held before plus the quantity
\* bought, its stop-loss is price * (1 - train_stop_loss) and its
\* take-profit price * (1 + train_take_profit).
C26_PopExtendsHolding ==
    [][(phase = "test" /\ Len(orders') = Len(orders) + 1) =>
          LET m == orders'[Len(orders')][2]
              quantity == m[2]
              ticker == m[3]
              current_price == cal.price[ticker]
          IN  current_price # 0 =>
                /\ account'.cash = account.cash - quantity * current_price
                /\ ticker \in DOMAIN account'.holdings
                /\ account'.holdings[ticker].quantity
                     = HeldQty(account.holdings, ticker) + quantity
                /\ account'.holdings[ticker].stop_loss
                     = current_price * (PerMille - train_stop_loss)
                /\ account'.holdings[ticker].take_profit
                     = current_price * (PerMille + train_take_profit)]_vars

----------------------------------------------------------------------------
(* The asset-concentration guard of execute_trade *)

\* quantities asked of execute_trade, one of them reaching the limit exactly
\* (150 * 100 = 0.3 * 50000)
GuardQtys == Qtys \cup {150}

\* ((existingQty + quantity) * price) / portfolioValue < assetConcentrationLimit
BelowAssetLimit(s, t, q, p) ==
    (HeldQty(trading_simulator[s].holdings, t) + q) * p * PerMille
        < train_rank_asset_limit * trading_simulator[s].portfolio_value

\* C27: execute_trade executes a buy only if the projected position
\* fraction is strictly below the asset limit; a buy that would reach or
\* exceed it leaves the ledgers and the points unchanged and raises nothing.
C27_AssetLimitStrict ==
    phase = "train" =>
       \A s \in Traders, t \in Tickers, q \in GuardQtys :
          \A p \in PricesOf(t) :
             LET r == TrainResult(s, t, "buy", q, p)
             IN  /\ r.sim # trading_simulator => BelowAssetLimit(s, t, q, p)
                 /\ ~BelowAssetLimit(s, t, q, p) =>
                       /\ r.sim = trading_simulator
                       /\ r.points = points
                       /\ ~r.raised

\* a buy has just been refused although the cash was above the reserve and
\* the quantity positive: the position would have reached the limit
C27_Witness ==
    /\ phase = "train"
    /\ last.op = "execute_trade" /\ last.decision = "buy"
    /\ last.outcome = "rejected"
    /\ LastLedger.amount_cash > train_rank_liquidity_limit
    /\ last.ticker \in DOMAIN LastLedger.holdings
    /\ \A q \in Qtys \ {0}, p \in PricesOf(last.ticker) :
          ~BelowAssetLimit(last.strategy, last.ticker, q, p)

----------------------------------------------------------------------------
(* The historical cache and the rank table *)

\* C28 (as claimed): in a run of the rank engine the historical cache is
\* cleared only after the rank table has been fully replaced: while the
\* first run has not inserted its last row, the cache still holds what it
\* held.
C28_CacheClearedAfterReplacement ==
    (phase = "rank" /\ HistoricalDatabase = {}) => OneToOneOnto(rank_coll, Ranked)

----------------------------------------------------------------------------
(* The sell quantity of the tournament flow *)

\* held quantities the quantity rule is asked about
HeldRange == 0..9 \cup {70, 140}

\* C29: for a Sell signal compute_trade_quantities asks for
\* max(1, floor(h / 2)) of a holding of h > 0, which lies in 1..h, and turns
\* the signal into hold with quantity 0 when nothing is held; execute_trade
\* called with that quantity on the ledger it was computed from sells it:
\* its sell guard does not fail and nothing is raised.
C29_SellAtMostHeld ==
    /\ \A h \in HeldRange, p \in ScorePrices :
          LET dq == compute_trade_quantities("Sell", p, start_cash, h, start_cash)
          IN  IF h > 0
              THEN /\ dq.decision = "sell"
                   /\ dq.qty = Max(1, h \div 2)
                   /\ 1 <= dq.qty /\ dq.qty <= h
              ELSE dq.decision = "hold" /\ dq.qty = 0
    /\ phase = "train" =>
          \A s \in Traders, t \in Tickers :
             \A p \in PricesOf(t) :
                LET led == trading_simulator[s]
                    h == HeldQty(led.holdings, t)
                    dq == compute_trade_quantities("Sell", p, led.amount_cash, h, led.portfolio_value)
                    r == TrainResult(s, t, dq.decision, dq.qty, p)
                IN  /\ dq.qty <= h
                    /\ ~r.raised
                    /\ h > 0 =>
                          /\ r.sim[s].total_trades = led.total_trades + 1
                          /\ HeldQty(r.sim[s].holdings, t) = h - dq.qty

\* half of a holding of 70 has just been sold on a Sell signal
C29_Witness ==
    /\ phase = "train"
    /\ last.op = "execute_trade" /\ last.decision = "sell"
    /\ last.outcome = "executed"
    /\ HeldQty(LastLedger.holdings, last.ticker) = 35

----------------------------------------------------------------------------
(* Retry loops: dbs/helper_functions.py retry_with_backoff,                *)
(* dbs/store_price_data.py get_price_data_retry_loop, and the fetch of the *)
(* historical data in process_ticker (TradeSim/ranking.py)                 *)

\* the largest max_retries a caller passes
MaxRetries == 5
BaseDelays == {1, 2}
MaxDelays == {4, 30}
\* get_price_data_retry_loop: max_retries, initial_delay, backoff_factor
price_max_retries == 3
price_initial_delay == 30
price_backoff_factor == 10
\* time.sleep(60) between two fetches of the historical data
fetch_sleep == 60

RECURSIVE IntPow(_, _)
IntPow(b, k) == IF k = 0 THEN 1 ELSE b * IntPow(b, k - 1)

\* delay = min(max_delay, base_delay * (2**attempt)), in half seconds
backoff_delay(base_delay, max_delay, attempt) ==
    2 * Min(max_delay, base_delay * IntPow(2, attempt))

\* retry_with_backoff(func, logger, max_retries, base_delay, max_delay)
retry_with_backoff_call(max_retries, base_delay, max_delay) ==
    /\ phase = "retry" /\ retry.pc = "idle"
    /\ retry' = [NoRetry EXCEPT !.loop = "retry_with_backoff",
                                !.pc = "running",
                                !.max_retries = max_retries,
                                !.base_delay = base_delay,
                                !.max_delay = max_delay]
    /\ UNCHANGED <<ledger_vars, rank_vars, fuse_vars, day_vars, threads>>

\* one turn of `while attempt <= max_retries`: func() returns, or raises;
\* the last failure is raised again, the others sleep between 50% and 100%
\* of the delay
retry_with_backoff_turn(ok, jittered) ==
    /\ phase = "retry" /\ retry.pc = "running"
    /\ retry.loop = "retry_with_backoff"
    /\ retry.attempt <= retry.max_retries
    /\ retry' =
         IF ok THEN [retry EXCEPT !.pc = "returned", !.calls = @ + 1]
         ELSE IF retry.attempt = retry.max_retries
         THEN [retry EXCEPT !.pc = "raised", !.calls = @ + 1]
         ELSE LET delay == backoff_delay(retry.base_delay, retry.max_delay,
                                         retry.attempt)
              IN  [retry EXCEPT
                     !.calls = @ + 1,
                     !.delay = IF jittered THEN delay \div 2 ELSE delay,
                     !.attempt = @ + 1]
    /\ UNCHANGED <<ledger_vars, rank_vars, fuse_vars, day_vars, threads>>

\* get_price_data_retry_loop is called with its defaults
get_price_data_retry_loop_call ==
    /\ phase = "retry" /\ retry.pc = "idle"
    /\ retry' = [NoRetry EXCEPT !.loop = "get_price_data_retry_loop",
                                !.pc = "running",
                                !.max_retries = price_max_retries,
                                !.base_delay = price_initial_delay]
    /\ UNCHANGED <<ledger_vars, rank_vars, fuse_vars, day_vars, threads>>

\* one turn of `for attempt in range(max_retries)`: the download meets the
\* threshold, or it does not and the loop waits, or gives up
get_price_data_retry_loop_turn(met) ==
    /\ phase = "retry" /\ retry.pc = "running"
    /\ retry.loop = "get_price_data_retry_loop"
    /\ retry.attempt < retry.max_retries
    /\ retry' =
         IF met \/ retry.attempt = retry.max_retries - 1
         THEN [retry EXCEPT !.pc = "returned", !.calls = @ + 1]
         ELSE [retry EXCEPT
                 !.calls = @ + 1,
                 !.delay = 2 * retry.base_delay
                             * IntPow(price_backoff_factor, retry.attempt),
                 !.attempt = @ + 1]
    /\ UNCHANGED <<ledger_vars, rank_vars, fuse_vars, day_vars, threads>>

\* process_ticker reaches `while historical_data is None`
process_ticker_fetch_call ==
    /\ phase = "retry" /\ retry.pc = "idle"
    /\ retry' = [NoRetry EXCEPT !.loop = "process_ticker", !.pc = "running"]
    /\ UNCHANGED <<ledger_vars, rank_vars, fuse_vars, day_vars, threads>>

\* one turn of `while historical_data is None`: get_data returns the data,
\* or it raises and the except logs and sleeps; nothing counts the turns
process_ticker_fetch_turn(ok) ==
    /\ phase = "retry" /\ retry.pc = "running"
    /\ retry.loop = "process_ticker"
    /\ retry' = IF ok THEN [retry EXCEPT !.pc = "returned"]
                ELSE [retry EXCEPT !.pc = "sleeping", !.delay = 2 * fetch_sleep]
    /\ UNCHANGED <<ledger_vars, rank_vars, fuse_vars, day_vars, threads>>

\* time.sleep(60) returns
process_ticker_fetch_wakes ==
    /\ phase = "retry" /\ retry.pc = "sleeping"
    /\ retry' = [retry EXCEPT !.pc = "running"]
    /\ UNCHANGED <<ledger_vars, rank_vars, fuse_vars, day_vars, threads>>

\* the caller goes on after the loop
retry_loop_left ==
    /\ phase = "retry" /\ retry.pc \in {"returned", "raised"}
    /\ retry' = NoRetry
    /\ UNCHANGED <<ledger_vars, rank_vars, fuse_vars, day_vars, threads>>

InitRetry ==
    /\ RankIdle
    /\ FuseIdle
    /\ ThreadIdle
    /\ DayIdle
    /\ trading_simulator = [s \in Strategies |-> NewLedger]
    /\ points = [s \in Strategies |-> 0]
    /\ run_status = "running"
    /\ algorithm_holdings = [s \in Strategies |-> NewLedger]
    /\ points_tally = [s \in Strategies |-> 0]
    /\ phase = "retry"
    /\ time_delta = 1 /\ td_doc = 1
    /\ last = NoCall

NextRetry ==
    \/ \E n \in 0..MaxRetries, b \in BaseDelays, m \in MaxDelays : retry_with_backoff_call(n, b, m)
    \/ \E ok \in BOOLEAN, jittered \in BOOLEAN : retry_with_backoff_turn(ok, jittered)
    \/ get_price_data_retry_loop_call
    \/ \E met \in BOOLEAN : get_price_data_retry_loop_turn(met)
    \/ process_ticker_fetch_call
    \/ \E ok \in BOOLEAN : process_ticker_fetch_turn(ok)
    \/ process_ticker_fetch_wakes
    \/ retry_loop_left

\* every turn of a loop that can be taken is taken sooner or later; whether
\* the operation fails is up to the environment
SpecRetry == InitRetry /\ [][NextRetry]_vars /\ WF_vars(NextRetry)

\* C30 (as claimed): every retry loop is bounded: retry_with_backoff calls
\* the operation at most max_retries + 1 times and never waits longer than
\* max_delay, and every retry loop that is entered is left, by a return or
\* by giving up, however often the operation fails.
C30_RetriesBounded ==
    /\ [](retry.loop = "retry_with_backoff" =>
            /\ retry.calls <= retry.max_retries + 1
            /\ retry.delay <= 2 * retry.max_delay)
    /\ (retry.pc = "running") ~> (retry.pc \in {"returned", "raised"})
====
